---- MODULE Spec2Model ----
(***************************************************************************)
(* Backend coordination core of Bottles:                                   *)
(*   bottles/backend/state.py       LockManager (named mutex pool),        *)
(*                                  Task, TaskManager, SignalManager       *)
(*   bottles/backend/repos/repo.py  RepoStatus (named gates), Repo         *)
(*                                                                         *)
(* Every process of the model is a Python thread.  A step is one line of   *)
(* the source: the interpreter may switch threads between any two lines.   *)
(* dict.setdefault, Lock.acquire/release and Event.set/clear/wait are      *)
(* single steps (each runs under the interpreter lock or the primitive's   *)
(* own lock).                                                              *)
(***************************************************************************)
EXTENDS Naturals, Integers, Sequences, FiniteSets, Bags, TLC

\* ------------------------------------------------------------------ bounds

\* Calls that the client threads may issue in one run.
MaxCalls == 4

\* Waits that the client threads may issue on Repos' gates in one run.
MaxWaits == 1

\* connect_signal, send_signal, add_task, remove_task and stream_update
\* calls and subtitle assignments issued in one run.
MaxTaskCalls == 3

\* ------------------------------------------------------------ the universe

\* Client threads (callers of RepoStatus, of wrapped functions).
Threads == {"t1", "t2", "t3"}

\* Repo instances; each gets its own RunAsync worker.
Repos == {"r1", "r2"}

Procs == Threads \cup Repos

\* Repo subclasses' `name` class attribute: instances of one class share it.
RepoNames == {"components", "dependencies"}

\* self.name + ".fetching"
Fetching(n) == n \o ".fetching"

\* Operation names handed to RepoStatus.
Names == {Fetching(n) : n \in RepoNames}

NoName == ""

\* class Locks(Enum)
Locks == {"components.install"}

\* Functions decorated with @LockManager.lock(...)
Funcs == {"f1", "f2"}

NoFunc == "-"

\* Object ids: 0 is "no object", 1.. are positions in the heap of the kind.
NoObj == 0

\* No transfer has been attempted.
NoOutcome == "-"

\* No Repo.
NoRepo == "-"

\* Threads that use the task registry and the signals.
TaskThreads == {"t1", "t2"}

\* Task objects.
Tasks == {"k1", "k2"}

NoTask == "-"

\* Values assigned to Task.subtitle.
Subtitles == {"s"}

\* class Signals(Enum): the members the task registry publishes.
Signals == {"task.added", "task.removed", "task.updated"}

NoSignal == "-"

\* Callables connected to signals.
Handlers == {"h1", "h2"}

\* The callable that listens to the task registry.
TaskHandlers == {"h1"}

NoHandler == "-"

\* Task._task_id = None; the UUIDs are 1, 2, ...
NoId == 0

\* class Status(Enum), lines 38-41
Statuses == {"RUNNING", "DONE", "FAILED"}

\* The tuple (Status.DONE, Status.FAILED)
StatusPair == "(DONE, FAILED)"

\* Values handed to stream_update as `status`: None (the default), a Status,
\* the tuple.
StatusArgs == {"None"} \cup Statuses \cup {StatusPair}

\* <<received_size, total_size>> handed to stream_update.
Sizes == {<<0, 0>>, <<1, 2>>, <<29, 100>>, <<1, 0>>}

\* The message of line 102, untranslated; its last character, the
\* ellipsis, is written as three dots.
Calculating == "Calculating..."

\* Payloads handed to send_signal by callers other than the task registry.
Payloads == {1, 2}

\* Handlers whose call raises.
Raisers == {"h2"}

\* The locals of a thread that is in no call of the task registry:
\* `call` names a call made from outside, `had` is the length the handler
\* list had when send_signal was called, `called` the handlers it has
\* called, each with the payload it was given.
NoFrame ==
    [task |-> NoTask, uniq |-> NoId, value |-> "", signal |-> NoSignal,
     handler |-> NoHandler, data |-> NoId, idx |-> 0, ret |-> "idle",
     call |-> "", status |-> "None", received |-> 0, total |-> 0,
     had |-> 0, called |-> <<>>]

\* No get_manifest call has been made.
NoManifest ==
    [repo |-> "-", plain |-> FALSE, outcome |-> NoOutcome, value |-> "unset",
     raised |-> FALSE, logged |-> 0]

VARIABLES
    pc,         \* Procs -> the line each thread is at
    calls,      \* number of calls issued by client threads so far
    \* ---- RepoStatus (repo.py 91-110)
    EVENTS,     \* RepoStatus.EVENTS: Names -> PyEvent id (NoObj: key absent)
    flag,       \* heap of PyEvent objects: flag[e] is the event's internal flag
    opname,     \* Procs -> `name` argument of the RepoStatus call in progress
    event,      \* Procs -> local `event` of the RepoStatus call in progress
    ret,        \* Procs -> where the RepoStatus call returns to
    started,    \* history: Names -> repo_start_operation(name) has been called
    everSet,    \* history: Names -> repo_done_operation(name) has run event.set()
    \* ---- Repo (repo.py 32-89)
    rname,      \* Repos -> self.name
    index,      \* Repos -> `index` argument handed to the fetch task
    offline,    \* Repos -> `offline` argument handed to the fetch task
    hasCb,      \* Repos -> a completion callback was supplied
    waited,     \* Threads -> the Repo the thread's last wait was issued for
    catalog,    \* Repos -> self.catalog
    result,     \* Repos -> value returned by __get_catalog
    trace,      \* history: Repos -> the steps of set_catalog done so far
    net,        \* history: Repos -> transfers the fetch has performed
    errors,     \* history: Repos -> logging.error calls of the fetch
    outcome,    \* history: Repos -> what the transfer and parse came to
    \* ---- LockManager (state.py 109-130)
    LOCKS,      \* LockManager._LOCKS: Locks -> PyLock id (NoObj: key absent)
    locked,     \* heap of PyLock objects: locked[l] is the lock's state
    wname,      \* Funcs -> `name` the function was decorated with
    wlock,      \* Funcs -> `lock` captured by the decorated function's wrapper
    fn,         \* Threads -> wrapped function the thread is calling
    outer,      \* Threads -> wrapped function whose body made that call
    resolved,   \* history: <<name, function or thread, lock>> for every lock
                \* get_lock has returned, to a decoration or to a thread
    \* ---- Repo.get_manifest (repo.py 70-89)
    manifest,   \* the last get_manifest call: its arguments and what it came to
    \* ---- TaskManager, Task, SignalManager (state.py 59-106, 137-181)
    TASKS,      \* TaskManager._TASKS: UUID -> Task, on the keys present
    uuids,      \* number of values uuid4() has given so far
    taskId,     \* Tasks -> task._task_id (NoId: None)
    subtitle,   \* Tasks -> task._subtitle
    made,       \* Tasks -> the constructor of the Task has returned
    SIGNALS,    \* SignalManager._SIGNALS: signal -> list of handlers, on the keys present
    frame,      \* Threads -> locals of the call in progress
    raised,     \* history: Threads -> exception that left the thread's last call
    published,  \* history: bag of <<signal, payload>>, one per send_signal call
    delivered,  \* history: per signal the registrations in the order they
                \* were made: the handler, the send_signal calls made before
                \* it was connected, and the calls of the list's entry
    stores,     \* history: Tasks -> stores of _subtitle (line 89)
    updates,    \* history: Tasks -> signals published by the setter (line 90)
    assigned,   \* history: Tasks -> assignments of _task_id (line 81)
    taskCalls   \* number of calls issued to the task registry and the signals

gateVars == <<EVENTS, flag, opname, event, ret, started, everSet>>
repoHist == <<net, errors, outcome>>
repoVars ==
    <<rname, index, offline, hasCb, waited, catalog, result, trace, repoHist>>
lockVars == <<LOCKS, locked, wname, wlock, fn, outer, resolved>>
manVars == <<manifest>>
regVars == <<TASKS, uuids, taskId, subtitle, made>>
sigVars == <<SIGNALS, delivered>>
histVars == <<published, stores, updates, assigned, taskCalls>>
taskVars == <<regVars, sigVars, histVars, frame, raised>>
vars == <<pc, calls, gateVars, repoVars, lockVars, manVars, taskVars>>

Init ==
    /\ pc = [p \in Procs |-> IF p \in Threads THEN "idle" ELSE "unborn"]
    /\ calls = 0
    /\ EVENTS = [n \in Names |-> NoObj]
    /\ flag = <<>>
    /\ opname = [p \in Procs |-> NoName]
    /\ event = [p \in Procs |-> NoObj]
    /\ ret = [p \in Procs |-> "idle"]
    /\ started = [n \in Names |-> FALSE]
    /\ everSet = [n \in Names |-> FALSE]
    /\ rname = [r \in Repos |-> NoName]
    /\ index = [r \in Repos |-> "None"]
    /\ offline = [r \in Repos |-> FALSE]
    /\ hasCb = [r \in Repos |-> FALSE]
    /\ waited = [t \in Threads |-> NoRepo]
    /\ catalog = [r \in Repos |-> "unset"]
    /\ result = [r \in Repos |-> "unset"]
    /\ trace = [r \in Repos |-> <<>>]
    /\ net = [r \in Repos |-> 0]
    /\ errors = [r \in Repos |-> 0]
    /\ outcome = [r \in Repos |-> NoOutcome]
    /\ LOCKS = [l \in Locks |-> NoObj]
    /\ locked = <<>>
    /\ wname = [f \in Funcs |-> NoName]
    /\ wlock = [f \in Funcs |-> NoObj]
    /\ fn = [t \in Threads |-> NoFunc]
    /\ outer = [t \in Threads |-> NoFunc]
    /\ resolved = {}
    /\ manifest = NoManifest
    /\ TASKS = <<>>
    /\ uuids = 0
    /\ taskId = [k \in Tasks |-> NoId]
    /\ subtitle = [k \in Tasks |-> ""]
    /\ made = [k \in Tasks |-> FALSE]
    /\ SIGNALS = <<>>
    /\ frame = [t \in Threads |-> NoFrame]
    /\ raised = [t \in Threads |-> "-"]
    /\ published = EmptyBag
    /\ delivered = <<>>
    /\ stores = [k \in Tasks |-> 0]
    /\ updates = [k \in Tasks |-> 0]
    /\ assigned = [k \in Tasks |-> 0]
    /\ taskCalls = 0

\* ------------------------------------------------- threading.Event, the dict

\* A buggy get-or-create: EVENTS[name] = PyEvent() on every reference.
EventsOverwrite(n) ==
    [map  |-> [EVENTS EXCEPT ![n] = Len(flag) + 1],
     heap |-> Append(flag, FALSE),
     obj  |-> Len(flag) + 1]

\* RepoStatus.EVENTS.setdefault(name, PyEvent()): the stored event when the
\* key is present, else a new event (flag false) stored and returned.  The
\* PyEvent() built for a present key is dropped unseen.
EventsSetdefault(n) ==
    IF EVENTS[n] # NoObj
    THEN [map |-> EVENTS, heap |-> flag, obj |-> EVENTS[n]]
    ELSE [map  |-> [EVENTS EXCEPT ![n] = Len(flag) + 1],
          heap |-> Append(flag, FALSE),
          obj  |-> Len(flag) + 1]

\* A clear() that forgets to reset the flag.
EventClearNoop(e) == flag

\* event.clear()
EventClear(e) == [flag EXCEPT ![e] = FALSE]

\* A set() that flips the flag.
EventSetToggles(e) == [flag EXCEPT ![e] = ~@]

\* event.set(): the flag becomes true
EventSet(e) == [flag EXCEPT ![e] = TRUE]

\* A set() that notifies nobody.
EventSetWakesNone(e) == {}

\* event.set() notifies all threads blocked in wait() on this event; a
\* notified thread returns from wait() without reading the flag again.
EventSetWakes(e) == {q \in Procs : pc[q] = "blocked" /\ event[q] = e}

\* A wait() that never blocks.
EventWaitNoBlock(e) == TRUE

\* A wait() that only listens for the next set(): a set() that came before
\* the wait is missed.
EventWaitMissesSet(e) == FALSE

\* event.wait() returns at once iff the flag is set.
EventWaitPasses(e) == flag[e]

\* An auto-reset wait(): the flag is consumed by the waiter that passes.
EventWaitConsumes(e) == [flag EXCEPT ![e] = FALSE]

\* event.wait() leaves the flag as it is.
EventWaitLeaves(e) == flag

\* ------------------------------------------------------------- RepoStatus

\* Entering one of the three static methods with argument n; k is the
\* caller's continuation.
Enter(p, entry, n, k) ==
    /\ pc' = [pc EXCEPT ![p] = entry]
    /\ opname' = [opname EXCEPT ![p] = n]
    /\ ret' = [ret EXCEPT ![p] = k]

\* Leaving a static method: the locals die.
Leave(p) ==
    /\ pc' = [pc EXCEPT ![p] = ret[p]]
    /\ opname' = [opname EXCEPT ![p] = NoName]
    /\ event' = [event EXCEPT ![p] = NoObj]
    /\ ret' = [ret EXCEPT ![p] = "idle"]

\* The first line of each static method.
Setdefault(p, at, next) ==
    /\ pc[p] = at
    /\ LET r == EventsSetdefault(opname[p]) IN
        /\ EVENTS' = r.map
        /\ flag' = r.heap
        /\ event' = [event EXCEPT ![p] = r.obj]
    /\ pc' = [pc EXCEPT ![p] = next]
    /\ UNCHANGED <<calls, opname, ret, started, everSet, repoVars, lockVars,
                   manVars, taskVars>>

\* repo_start_operation, line 96
Start96(p) == Setdefault(p, "start96", "start97")

\* repo_start_operation, lines 97-98: event.clear(), then the log line (which
\* touches nothing shared) and the return.
Start97(p) ==
    /\ pc[p] = "start97"
    /\ flag' = EventClear(event[p])
    /\ Leave(p)
    /\ UNCHANGED <<calls, EVENTS, started, everSet, repoVars, lockVars,
                   manVars, taskVars>>

\* repo_done_operation, line 102
Done102(p) == Setdefault(p, "done102", "done103")

\* repo_done_operation, lines 103-104: event.set(), which wakes the blocked
\* waiters, then the log line and the return.
Done103(p) ==
    /\ pc[p] = "done103"
    /\ flag' = EventSet(event[p])
    /\ pc' = [q \in Procs |->
                IF q = p THEN ret[p]
                ELSE IF q \in EventSetWakes(event[p]) THEN "wait110"
                ELSE pc[q]]
    /\ opname' = [opname EXCEPT ![p] = NoName]
    /\ event' = [event EXCEPT ![p] = NoObj]
    /\ ret' = [ret EXCEPT ![p] = "idle"]
    /\ everSet' = [everSet EXCEPT ![opname[p]] = TRUE]
    /\ trace' = [r \in Repos |->
                   IF r = p THEN Append(trace[r], "signal") ELSE trace[r]]
    /\ UNCHANGED <<calls, EVENTS, started, rname, index, offline, hasCb, waited,
                   catalog, result, repoHist, lockVars,
                   manVars, taskVars>>

\* repo_wait_operation, line 108
Wait108(p) == Setdefault(p, "wait108", "wait109")

\* repo_wait_operation, line 109: pass, or block until notified
Wait109(p) ==
    /\ pc[p] = "wait109"
    /\ IF EventWaitPasses(event[p])
       THEN /\ pc' = [pc EXCEPT ![p] = "wait110"]
            /\ flag' = EventWaitLeaves(event[p])
       ELSE /\ pc' = [pc EXCEPT ![p] = "blocked"]
            /\ flag' = flag
    /\ UNCHANGED <<calls, EVENTS, opname, event, ret, started, everSet,
                   repoVars, lockVars,
                   manVars, taskVars>>

\* repo_wait_operation, line 110 and return
Wait110(p) ==
    /\ pc[p] = "wait110"
    /\ Leave(p)
    /\ UNCHANGED <<calls, EVENTS, flag, started, everSet, repoVars, lockVars,
                   manVars, taskVars>>

\* One line of a RepoStatus method run by p.
GateStep(p) ==
    \/ Start96(p) \/ Start97(p)
    \/ Done102(p) \/ Done103(p)
    \/ Wait108(p) \/ Wait109(p) \/ Wait110(p)

\* A client thread calls RepoStatus.repo_start_operation(n).
CallStart(t, n) ==
    /\ pc[t] = "idle"
    /\ calls < MaxCalls
    /\ calls' = calls + 1
    /\ Enter(t, "start96", n, "idle")
    /\ started' = [started EXCEPT ![n] = TRUE]
    /\ UNCHANGED <<EVENTS, flag, event, everSet, repoVars, lockVars,
                   manVars, taskVars>>

\* A client thread calls RepoStatus.repo_done_operation(n).
CallDone(t, n) ==
    /\ pc[t] = "idle"
    /\ calls < MaxCalls
    /\ calls' = calls + 1
    /\ Enter(t, "done102", n, "idle")
    /\ UNCHANGED <<EVENTS, flag, event, started, everSet, repoVars, lockVars,
                   manVars, taskVars>>

\* A client thread calls RepoStatus.repo_wait_operation(n).
CallWait(t, n) ==
    /\ pc[t] = "idle"
    /\ calls < MaxCalls
    /\ calls' = calls + 1
    /\ Enter(t, "wait108", n, "idle")
    /\ UNCHANGED <<EVENTS, flag, event, started, everSet, repoVars, lockVars,
                   manVars, taskVars>>

NextGate ==
    \/ \E t \in Threads, n \in Names : CallStart(t, n)
    \/ \E t \in Threads, n \in Names : CallDone(t, n)
    \/ \E t \in Threads, n \in Names : CallWait(t, n)
    \/ \E t \in Threads : GateStep(t)

\* Threads calling the three RepoStatus methods in any mix and order.
SpecGate == Init /\ [][NextGate]_vars

\* The same, with every thread that can take a step eventually scheduled.
\* Issuing a new call is the client's choice and is never forced.
FairGate == SpecGate /\ \A t \in Threads : WF_vars(GateStep(t))

\* ------------------------------------------------------------------- Repo

\* Values of the `index` argument.
Indexes == {"", "None", "http://example/index.yml"}

\* What the transfer and the parse of a fetched document can come to.
Outcomes == {"ok", "pycurl.error", "yaml.YAMLError"}

\* RunAsync(task, callback=..., **kwargs): the task is handed to a worker,
\* which will run it off the calling context; the caller goes on at once.
RunAsync(r) == [pc EXCEPT ![r] = "gc47"]

\* On completion of the task the worker invokes the callback with the
\* task's return value.
RunAsyncCallback(r) == [pc EXCEPT ![r] = "sc40"]

\* Repo.__init__, lines 35-44: the constructor returns with the fetch handed
\* to RunAsync and not yet begun.
Construct(r, n, idx, off, cb) ==
    /\ pc[r] = "unborn"
    /\ rname' = [rname EXCEPT ![r] = n]
    /\ catalog' = [catalog EXCEPT ![r] = "None"]
    /\ index' = [index EXCEPT ![r] = idx]
    /\ offline' = [offline EXCEPT ![r] = off]
    /\ hasCb' = [hasCb EXCEPT ![r] = cb]
    /\ pc' = RunAsync(r)
    /\ UNCHANGED <<calls, gateVars, waited, result, trace, repoHist, lockVars,
                   manVars, taskVars>>

\* Repo.__get_catalog, line 47, on the worker
GetCatalog47(r) ==
    /\ pc[r] = "gc47"
    /\ Enter(r, "start96", Fetching(rname[r]), "gc49")
    /\ started' = [started EXCEPT ![Fetching(rname[r])] = TRUE]
    /\ UNCHANGED <<calls, EVENTS, flag, event, everSet, repoVars, lockVars,
                   manVars, taskVars>>

\* __get_catalog, line 49: the fetch is answered on the spot
GetCatalogLocal(idx, off) == idx \in {"", "None"} \/ off

\* What the fetch can come to: nothing is transferred on the early return.
GetCatalogOutcomes(idx, off) ==
    IF GetCatalogLocal(idx, off) THEN {NoOutcome} ELSE Outcomes

\* A fetch that goes to the network even when told to stay offline.
GetCatalogIgnoresOffline(idx, off, o) ==
    IF idx \in {"", "None"} THEN "{}"
    ELSE IF o \in {"ok", NoOutcome} THEN "doc"
    ELSE "{}"

\* A fetch that lets a failure through as the missing value.
GetCatalogFailsToNone(idx, off, o) ==
    IF idx \in {"", "None"} \/ off THEN "{}"
    ELSE IF o = "ok" THEN "doc"
    ELSE "None"

\* The value __get_catalog returns (lines 49-68) when the transfer and the
\* parse come to outcome o.
GetCatalogResult(idx, off, o) ==
    IF idx \in {"", "None"} \/ off THEN "{}"
    ELSE IF o = "ok" THEN "doc"
    ELSE "{}"

\* c.perform() calls of __get_catalog (line 59)
GetCatalogTransfers(idx, off) == IF GetCatalogLocal(idx, off) THEN 0 ELSE 1

\* logging.error calls of __get_catalog (line 67)
GetCatalogErrors(o) == IF o \in {"pycurl.error", "yaml.YAMLError"} THEN 1 ELSE 0

\* Repo.__get_catalog, lines 49-68, and the worker passing the result on
GetCatalog49(r) ==
    /\ pc[r] = "gc49"
    /\ \E o \in GetCatalogOutcomes(index[r], offline[r]) :
          /\ result' = [result EXCEPT
                           ![r] = GetCatalogResult(index[r], offline[r], o)]
          /\ errors' = [errors EXCEPT ![r] = @ + GetCatalogErrors(o)]
          /\ outcome' = [outcome EXCEPT ![r] = o]
    /\ net' = [net EXCEPT
                  ![r] = @ + GetCatalogTransfers(index[r], offline[r])]
    /\ pc' = RunAsyncCallback(r)
    /\ UNCHANGED <<calls, gateVars, rname, index, offline, hasCb, waited, catalog,
                   trace, lockVars, manVars, taskVars>>

\* A set_catalog that signals and calls back without storing the result.
SetCatalog40Skip(r) ==
    /\ pc[r] = "sc40"
    /\ trace' = [trace EXCEPT ![r] = Append(@, "catalog")]
    /\ pc' = [pc EXCEPT ![r] = "sc41"]
    /\ UNCHANGED <<calls, gateVars, rname, index, offline, hasCb, waited, catalog,
                   result, repoHist, lockVars,
                   manVars, taskVars>>

\* set_catalog, line 40
SetCatalog40(r) ==
    /\ pc[r] = "sc40"
    /\ catalog' = [catalog EXCEPT ![r] = result[r]]
    /\ trace' = [trace EXCEPT ![r] = Append(@, "catalog")]
    /\ pc' = [pc EXCEPT ![r] = "sc41"]
    /\ UNCHANGED <<calls, gateVars, rname, index, offline, hasCb, waited, result,
                   repoHist, lockVars,
                   manVars, taskVars>>

\* A set_catalog that goes on to the callback without signalling the gate.
SetCatalog41Skip(r) ==
    /\ pc[r] = "sc41"
    /\ pc' = [pc EXCEPT ![r] = "sc42"]
    /\ UNCHANGED <<calls, gateVars, repoVars, lockVars, manVars, taskVars>>

\* set_catalog, line 41
SetCatalog41(r) ==
    /\ pc[r] = "sc41"
    /\ Enter(r, "done102", Fetching(rname[r]), "sc42")
    /\ UNCHANGED <<calls, EVENTS, flag, event, started, everSet, repoVars,
                   lockVars,
                   manVars, taskVars>>

\* set_catalog, lines 42-43
SetCatalog42(r) ==
    /\ pc[r] = "sc42"
    /\ trace' = [trace EXCEPT
                    ![r] = IF hasCb[r] THEN Append(@, "callback") ELSE @]
    /\ pc' = [pc EXCEPT ![r] = "finished"]
    /\ UNCHANGED <<calls, gateVars, rname, index, offline, hasCb, waited, catalog,
                   result, repoHist, lockVars,
                   manVars, taskVars>>

\* One step of the worker of Repo r.
WorkerStep(r) ==
    \/ GetCatalog47(r) \/ GetCatalog49(r)
    \/ SetCatalog40(r) \/ SetCatalog41(r) \/ SetCatalog42(r)
    \/ Start96(r) \/ Start97(r)
    \/ Done102(r) \/ Done103(r)

\* A client thread waits for the fetch of Repo r, whose constructor has
\* returned: RepoStatus.repo_wait_operation(r.name + ".fetching").
WaitForRepo(t, r) ==
    /\ pc[t] = "idle"
    /\ pc[r] # "unborn"
    /\ calls < MaxWaits
    /\ calls' = calls + 1
    /\ Enter(t, "wait108", Fetching(rname[r]), "idle")
    /\ waited' = [waited EXCEPT ![t] = r]
    /\ UNCHANGED <<EVENTS, flag, event, started, everSet, rname, index,
                   offline, hasCb, catalog, result, trace, repoHist, lockVars,
                   manVars, taskVars>>

\* The Repo whose get_manifest is called.
ManifestRepo == "r1"

\* What the transfer, the decoding and the parse of get_manifest can come
\* to: the document is decoded in plain mode (line 84) and parsed
\* otherwise (line 86).
ManifestOutcomes(plain) ==
    IF plain THEN {"ok", "pycurl.error", "UnicodeDecodeError"} ELSE Outcomes

\* A get_manifest without the except clause of lines 87-89.
GetManifestUncaught(plain, o) ==
    IF o = "ok"
    THEN [value |-> IF plain THEN "text" ELSE "doc", raised |-> FALSE,
          logged |-> 0]
    ELSE [value |-> "unset", raised |-> TRUE, logged |-> 0]

\* What get_manifest(url, plain) comes to, lines 71-89: the value returned,
\* whether an exception leaves the call, the logging.error calls made.
GetManifestResult(plain, o) ==
    IF o = "ok"
    THEN [value |-> IF plain THEN "text" ELSE "doc", raised |-> FALSE,
          logged |-> 0]
    ELSE IF o \in {"pycurl.error", "yaml.YAMLError"}
    THEN [value |-> "{}", raised |-> FALSE, logged |-> 1]
    ELSE [value |-> "unset", raised |-> TRUE, logged |-> 0]

\* A get_manifest that keeps what it returns as the catalog of the Repo.
GetManifestStores(r, plain, o) ==
    /\ pc[r] # "unborn"
    /\ o \in ManifestOutcomes(plain)
    /\ manifest' = [repo |-> r, plain |-> plain, outcome |-> o,
                    value |-> GetManifestResult(plain, o).value,
                    raised |-> GetManifestResult(plain, o).raised,
                    logged |-> GetManifestResult(plain, o).logged]
    /\ catalog' = [catalog EXCEPT ![r] = GetManifestResult(plain, o).value]
    /\ UNCHANGED <<pc, calls, gateVars, rname, index, offline, hasCb, waited,
                   result, trace, repoHist, lockVars, taskVars>>

\* A thread calls r.get_manifest(url, plain) on a constructed Repo.  The
\* call touches nothing but its own locals and the log, so it is one step.
GetManifest(r, plain, o) ==
    /\ pc[r] # "unborn"
    /\ o \in ManifestOutcomes(plain)
    /\ manifest' = [repo |-> r, plain |-> plain, outcome |-> o,
                    value |-> GetManifestResult(plain, o).value,
                    raised |-> GetManifestResult(plain, o).raised,
                    logged |-> GetManifestResult(plain, o).logged]
    /\ UNCHANGED <<pc, calls, gateVars, repoVars, lockVars, taskVars>>

NextRepo ==
    \/ \E r \in Repos, n \in RepoNames, idx \in Indexes,
          off \in BOOLEAN, cb \in BOOLEAN : Construct(r, n, idx, off, cb)
    \/ \E r \in Repos : WorkerStep(r)

\* Repos being constructed, each fetched by its worker.
SpecRepo == Init /\ [][NextRepo]_vars

\* The task runner runs every task handed to it, and the callback after it.
FairRepo == SpecRepo /\ \A r \in Repos : WF_vars(WorkerStep(r))

\* One Repo, its worker, and the threads calling its get_manifest.
NextManifest ==
    \/ \E n \in RepoNames, idx \in Indexes, off \in BOOLEAN, cb \in BOOLEAN :
          Construct(ManifestRepo, n, idx, off, cb)
    \/ WorkerStep(ManifestRepo)
    \/ \E plain \in BOOLEAN, o \in Outcomes \cup {"UnicodeDecodeError"} :
          GetManifest(ManifestRepo, plain, o)

SpecManifest == Init /\ [][NextManifest]_vars

\* The thread that waits for Repos.
Waiters == {"t1"}

NextRepoClients ==
    \/ \E r \in Repos, n \in RepoNames, idx \in Indexes :
          Construct(r, n, idx, FALSE, FALSE)
    \/ \E r \in Repos : WorkerStep(r)
    \/ \E t \in Waiters, r \in Repos : WaitForRepo(t, r)
    \/ \E t \in Waiters : Wait108(t) \/ Wait109(t) \/ Wait110(t)

\* Repos constructed online and without a callback, each fetched by its
\* worker, and a client thread waiting on the Repos' gates.
SpecRepoClients == Init /\ [][NextRepoClients]_vars

\* ------------------------------------------------------------ LockManager

\* A buggy get_lock: _LOCKS[name] = PyLock() on every call.
LocksOverwrite(l) ==
    [map  |-> [LOCKS EXCEPT ![l] = Len(locked) + 1],
     heap |-> Append(locked, FALSE),
     obj  |-> Len(locked) + 1]

\* get_lock, line 130: cls._LOCKS.setdefault(name, PyLock())
LocksSetdefault(l) ==
    IF LOCKS[l] # NoObj
    THEN [map |-> LOCKS, heap |-> locked, obj |-> LOCKS[l]]
    ELSE [map  |-> [LOCKS EXCEPT ![l] = Len(locked) + 1],
          heap |-> Append(locked, FALSE),
          obj  |-> Len(locked) + 1]

\* An acquire() that does not wait for the lock to be free.
AcquireNoWait(l) == TRUE

\* lock.acquire() goes through only when the lock is free.
Acquirable(l) == ~locked[l]

\* LockManager.lock(name) applied to function f, lines 113-126: get_lock runs
\* once, at decoration; the wrapper keeps the lock it returned.
Decorate(f, l) ==
    /\ wlock[f] = NoObj
    /\ LET r == LocksSetdefault(l) IN
        /\ LOCKS' = r.map
        /\ locked' = r.heap
        /\ wlock' = [wlock EXCEPT ![f] = r.obj]
        /\ resolved' = resolved \cup {<<l, f, r.obj>>}
    /\ wname' = [wname EXCEPT ![f] = l]
    /\ UNCHANGED <<pc, calls, gateVars, repoVars, fn, outer,
                   manVars, taskVars>>

\* A thread calls LockManager.get_lock(l), line 130.
GetLock(t, l) ==
    /\ pc[t] = "idle"
    /\ calls < MaxCalls
    /\ calls' = calls + 1
    /\ LET r == LocksSetdefault(l) IN
        /\ LOCKS' = r.map
        /\ locked' = r.heap
        /\ resolved' = resolved \cup {<<l, t, r.obj>>}
    /\ UNCHANGED <<pc, gateVars, repoVars, wname, wlock, fn, outer,
                   manVars, taskVars>>

\* A thread calls the wrapper of decorated function f.
CallWrapped(t, f) ==
    /\ pc[t] = "idle"
    /\ wlock[f] # NoObj
    /\ calls < MaxCalls
    /\ calls' = calls + 1
    /\ pc' = [pc EXCEPT ![t] = "w119"]
    /\ fn' = [fn EXCEPT ![t] = f]
    /\ UNCHANGED <<gateVars, repoVars, LOCKS, locked, wname, wlock, outer,
                   resolved, manVars, taskVars>>

\* The body of the wrapped function a thread is in (line 120) calls the
\* wrapper of decorated function g.
CallNested(t, g) ==
    /\ pc[t] = "w120"
    /\ outer[t] = NoFunc
    /\ wlock[g] # NoObj
    /\ calls < MaxCalls
    /\ calls' = calls + 1
    /\ pc' = [pc EXCEPT ![t] = "w119"]
    /\ outer' = [outer EXCEPT ![t] = fn[t]]
    /\ fn' = [fn EXCEPT ![t] = g]
    /\ UNCHANGED <<gateVars, repoVars, LOCKS, locked, wname, wlock,
                   resolved, manVars, taskVars>>

\* wrapper, line 119
W119(t) ==
    /\ pc[t] = "w119"
    /\ Acquirable(wlock[fn[t]])
    /\ locked' = [locked EXCEPT ![wlock[fn[t]]] = TRUE]
    /\ pc' = [pc EXCEPT ![t] = "w120"]
    /\ UNCHANGED <<calls, gateVars, repoVars, LOCKS, wname, wlock, fn, outer,
                   resolved, manVars, taskVars>>

\* wrapper, line 120: func returns a value
W120Return(t) ==
    /\ pc[t] = "w120"
    /\ pc' = [pc EXCEPT ![t] = "w121"]
    /\ UNCHANGED <<calls, gateVars, repoVars, lockVars,
                   manVars, taskVars>>

\* wrapper, line 120: func raises; the exception leaves the wrapper, and
\* the wrapper of the function that called it, which has no handler either
W120Raise(t) ==
    /\ pc[t] = "w120"
    /\ pc' = [pc EXCEPT ![t] = "idle"]
    /\ fn' = [fn EXCEPT ![t] = NoFunc]
    /\ outer' = [outer EXCEPT ![t] = NoFunc]
    /\ UNCHANGED <<calls, gateVars, repoVars, LOCKS, locked, wname, wlock,
                   resolved, manVars, taskVars>>

\* wrapper, lines 121-122: the wrapper returns to its caller, which is the
\* body of another wrapped function or the thread's own code
W121(t) ==
    /\ pc[t] = "w121"
    /\ locked' = [locked EXCEPT ![wlock[fn[t]]] = FALSE]
    /\ pc' = [pc EXCEPT ![t] = IF outer[t] = NoFunc THEN "idle" ELSE "w120"]
    /\ fn' = [fn EXCEPT ![t] = outer[t]]
    /\ outer' = [outer EXCEPT ![t] = NoFunc]
    /\ UNCHANGED <<calls, gateVars, repoVars, LOCKS, wname, wlock,
                   resolved, manVars, taskVars>>

NextLock ==
    \/ \E f \in Funcs, l \in Locks : Decorate(f, l)
    \/ \E t \in Threads, l \in Locks : GetLock(t, l)
    \/ \E t \in Threads, f \in Funcs : CallWrapped(t, f)
    \/ \E t \in Threads : W119(t)
    \/ \E t \in Threads : W120Return(t)
    \/ \E t \in Threads : W120Raise(t)
    \/ \E t \in Threads : W121(t)

\* Functions being decorated and threads calling them.
SpecLock == Init /\ [][NextLock]_vars

NextNested ==
    \/ NextLock
    \/ \E t \in Threads, g \in Funcs : CallNested(t, g)

\* The same, with wrapped functions that call wrapped functions.
SpecNested == Init /\ [][NextNested]_vars


\* ------------------------------------------------- float arithmetic (IEEE 754)
\* Python's float is the binary64 format: 53 significant bits, every result
\* rounded to nearest, ties to even.  A positive float is kept exactly, as
\* [sig, exp] of value Value(sig) * 2^exp: `sig` is an integer of at most
\* Precision significant bits, written in limbs of LimbBits bits, the most
\* significant limb first and nonzero.

\* Significant bits of a float.
Precision == 53

\* Bits of one limb: three limbs hold Precision + 1 bits, and a limb times
\* 100, or a remainder below 2^13 times a limb, stays below 2^31.
LimbBits == 18

\* 2^n
RECURSIVE Pow2(_)
Pow2(n) == IF n = 0 THEN 1 ELSE 2 * Pow2(n - 1)

Base == Pow2(LimbBits)

\* The number of binary digits of n.
RECURSIVE BitLength(_)
BitLength(n) == IF n = 0 THEN 0 ELSE 1 + BitLength(n \div 2)

\* The largest e with d * 2^e <= n, for n >= d > 0.
RECURSIVE FloorLog2(_, _)
FloorLog2(n, d) == IF 2 * d <= n THEN 1 + FloorLog2(n, 2 * d) ELSE 0

\* The smallest k with n * 2^k >= d, for 0 < n.
RECURSIVE CeilShift(_, _)
CeilShift(n, d) == IF n >= d THEN 0 ELSE 1 + CeilShift(2 * n, d)

\* limbs * c + carry, for small integers c > 0 and carry >= 0.
RECURSIVE TimesSmall(_, _, _)
TimesSmall(limbs, c, carry) ==
    IF limbs = <<>> THEN (IF carry = 0 THEN <<>> ELSE <<carry>>)
    ELSE LET n == Len(limbs)
             v == limbs[n] * c + carry
         IN  Append(TimesSmall(SubSeq(limbs, 1, n - 1), c, v \div Base),
                    v % Base)

\* The number of binary digits of the integer in `limbs`.
Bits(limbs) == (Len(limbs) - 1) * LimbBits + BitLength(limbs[1])

\* Round to nearest, ties to even: the integer in `limbs` with all but its
\* Precision leading bits cleared (they lie in the last limb), rounded up
\* by one unit of the last bit kept where the cleared part says so;
\* `inexact` tells that the exact value lies above the one in `limbs`.
RoundToNearestEven(limbs, inexact) ==
    LET n       == Len(limbs)
        unit    == Pow2(Bits(limbs) - Precision)
        dropped == limbs[n] % unit
        odd     == (limbs[n] \div unit) % 2 = 1
        up      == \/ 2 * dropped > unit
                   \/ 2 * dropped = unit /\ (inexact \/ odd)
        down    == [limbs EXCEPT ![n] = limbs[n] - dropped]
    IN  IF Bits(limbs) <= Precision THEN limbs
        ELSE IF up THEN TimesSmall(down, 1, unit)
        ELSE down

\* float(n) / float(d) for integers 0 < n, d < 2^13 (both conversions are
\* exact): long division to Precision + 1 bits, then rounding.
FloatDiv(n, d) ==
    LET e   == IF n >= d THEN FloorLog2(n, d) ELSE 0 - CeilShift(n, d)
        num == IF n >= d THEN n ELSE n * Pow2(CeilShift(n, d))
        den == IF n >= d THEN d * Pow2(FloorLog2(n, d)) ELSE d
        s1  == num * Pow2(LimbBits - 1)
        s2  == (s1 % den) * Base
        s3  == (s2 % den) * Base
    IN  [sig |-> RoundToNearestEven(<<s1 \div den, s2 \div den, s3 \div den>>,
                                    s3 % den # 0),
         exp |-> e - Precision]

\* x * float(c) for a float x > 0 and a small integer c > 0.
FloatMul(x, c) ==
    [sig |-> RoundToNearestEven(TimesSmall(x.sig, c, 0), FALSE),
     exp |-> x.exp]

\* The integer in `limbs`.
RECURSIVE Value(_)
Value(limbs) ==
    IF limbs = <<>> THEN 0
    ELSE Base * Value(SubSeq(limbs, 1, Len(limbs) - 1)) + limbs[Len(limbs)]

\* int(x) for a float x > 0 below 2^13: the digits before the point.
FloatToInt(x) ==
    IF x.exp >= 0 THEN Value(x.sig) * Pow2(x.exp)
    ELSE LET whole == (0 - x.exp) \div LimbBits
             part  == (0 - x.exp) % LimbBits
         IN  IF whole >= Len(x.sig) THEN 0
             ELSE Value(SubSeq(x.sig, 1, Len(x.sig) - whole)) \div Pow2(part)

\* int(received_size / total_size * 100), line 105, for total_size > 0
Percent(received, total) ==
    IF received = 0 THEN 0
    ELSE FloatToInt(FloatMul(FloatDiv(received, total), 100))

\* --------------------------------------- Task, TaskManager, SignalManager

restVars == <<calls, gateVars, repoVars, lockVars, manVars>>

\* Line 148: uuid4() gives a value that no call has given before.
Uuid4 == uuids + 1

\* cls._TASKS[uniq] = task that forgets the other entries.
TasksStoreAlone(u, k) == [x \in {u} |-> k]

\* cls._TASKS[uniq] = task, line 150
TasksStore(u, k) ==
    [x \in DOMAIN TASKS \cup {u} |-> IF x = u THEN k ELSE TASKS[x]]

\* cls._TASKS.pop(task) that empties the map.
TasksPopAll(u) == <<>>

\* cls._TASKS.pop(task), line 158, for a key that is present
TasksPop(u) == [x \in DOMAIN TASKS \ {u} |-> TASKS[x]]

\* dict.pop that answers for a key that is absent.
PopFindsAlways(u) == TRUE

\* cls._TASKS.pop(task), line 158: the key is present
PopFinds(u) == u \in DOMAIN TASKS

\* Task.task_id setter, lines 79-80: a Task that has an identifier refuses
\* another.
SetterRefuses(k) == taskId[k] # NoId

\* cls._SIGNALS.setdefault(signal, []), line 168
SignalsSetdefault(m, s) ==
    [x \in DOMAIN m \cup {s} |-> IF x \in DOMAIN m THEN m[x] ELSE <<>>]

\* send_signal calls made so far for signal s.
Published(s) ==
    LET keys == {e \in BagToSet(published) : e[1] = s}
        Sum[S \in SUBSET keys] ==
            IF S = {} THEN 0
            ELSE LET e == CHOOSE x \in S : TRUE
                 IN  CopiesIn(e, published) + Sum[S \ {e}]
    IN  Sum[keys]

\* The thread leaves its call: an exception x ("-": none) leaves with it.
Return(t, x) ==
    /\ pc' = [pc EXCEPT ![t] = "idle"]
    /\ frame' = [frame EXCEPT ![t] = NoFrame]
    /\ raised' = [raised EXCEPT ![t] = x]

\* State.send_signal(s, Result(True, d)) is called by thread t, which will
\* go on at `next` when the call returns.
Publish(t, s, d, next) ==
    /\ frame' = [frame EXCEPT ![t] = [@ EXCEPT !.signal = s, !.data = d,
                          !.ret = next, !.called = <<>>,
                          !.had = IF s \in DOMAIN SIGNALS THEN Len(SIGNALS[s])
                                  ELSE 0]]
    /\ published' = published (+) SetToBag({<<s, d>>})
    /\ pc' = [pc EXCEPT ![t] = "send177"]

\* send_signal returns to its caller.
SendReturns(t) ==
    IF frame[t].ret = "idle"
    THEN Return(t, "-")
    ELSE /\ pc' = [pc EXCEPT ![t] = frame[t].ret]
         /\ frame' = [frame EXCEPT
                         ![t] = [NoFrame EXCEPT !.task = frame[t].task]]
         /\ UNCHANGED raised

\* A membership test that, like a lookup in a defaultdict, makes the key.
SignalsDefaulted(s) == SignalsSetdefault(SIGNALS, s)

\* `signal not in cls._SIGNALS`, line 177: the map after the test
SignalsTested(s) == SIGNALS

\* send_signal, lines 177-179: a signal nobody has connected to is dropped.
Send177(t) ==
    /\ pc[t] = "send177"
    /\ SIGNALS' = SignalsTested(frame[t].signal)
    /\ IF frame[t].signal \notin DOMAIN SIGNALS
       THEN SendReturns(t)
       ELSE /\ pc' = [pc EXCEPT ![t] = "send180"]
            /\ frame' = [frame EXCEPT ![t].idx = 1]
            /\ UNCHANGED raised
    /\ UNCHANGED <<regVars, delivered, histVars, restVars>>

\* A loop that stops after the first handler.
LoopEndsEarly(t) == frame[t].idx > 1 \/ SIGNALS[frame[t].signal] = <<>>

\* `for fn in cls._SIGNALS[signal]`, line 180: the list is exhausted
LoopEnds(t) == frame[t].idx > Len(SIGNALS[frame[t].signal])

\* A loop that catches the exception of a handler and goes on with the
\* next handler.
Send180Catches(t) ==
    /\ pc[t] = "send180"
    /\ IF LoopEnds(t)
       THEN /\ SendReturns(t)
            /\ UNCHANGED delivered
       ELSE LET fn_ == SIGNALS[frame[t].signal][frame[t].idx]
            IN  /\ delivered' = [delivered EXCEPT
                      ![frame[t].signal][frame[t].idx].calls = @ + 1]
                /\ frame' = [frame EXCEPT
                       ![t].idx = @ + 1,
                       ![t].called = Append(@, <<fn_, frame[t].data>>)]
                /\ UNCHANGED <<pc, raised>>
    /\ UNCHANGED <<regVars, SIGNALS, histVars, restVars>>

\* send_signal, lines 180-181: the loop takes the next handler of the list
\* and calls it, or ends; an exception of the handler leaves send_signal.
Send180(t) ==
    /\ pc[t] = "send180"
    /\ IF LoopEnds(t)
       THEN /\ SendReturns(t)
            /\ UNCHANGED delivered
       ELSE LET fn_ == SIGNALS[frame[t].signal][frame[t].idx]
            IN  /\ delivered' = [delivered EXCEPT
                      ![frame[t].signal][frame[t].idx].calls = @ + 1]
                /\ IF fn_ \in Raisers
                   THEN Return(t, "HandlerError")
                   ELSE /\ frame' = [frame EXCEPT
                               ![t].idx = @ + 1,
                               ![t].called = Append(@, <<fn_, frame[t].data>>)]
                        /\ UNCHANGED <<pc, raised>>
    /\ UNCHANGED <<regVars, SIGNALS, histVars, restVars>>

\* A thread calls SignalManager.connect_signal(s, h).
ConnectSignal(t, s, h) ==
    /\ pc[t] = "idle"
    /\ taskCalls < MaxTaskCalls
    /\ taskCalls' = taskCalls + 1
    /\ pc' = [pc EXCEPT ![t] = "con168"]
    /\ frame' = [frame EXCEPT ![t] = [NoFrame EXCEPT !.signal = s,
                                                      !.handler = h]]
    /\ raised' = [raised EXCEPT ![t] = "-"]
    /\ UNCHANGED <<regVars, sigVars, published, stores, updates, assigned, restVars>>

\* connect_signal, line 168
Con168(t) ==
    /\ pc[t] = "con168"
    /\ SIGNALS' = SignalsSetdefault(SIGNALS, frame[t].signal)
    /\ delivered' = SignalsSetdefault(delivered, frame[t].signal)
    /\ pc' = [pc EXCEPT ![t] = "con169"]
    /\ UNCHANGED <<regVars, histVars, frame, raised, restVars>>

\* A list that takes a new handler at its front.
HandlersPrepend(list, h) == <<h>> \o list

\* cls._SIGNALS[signal].append(fn), line 169
HandlersAppend(list, h) == Append(list, h)

\* connect_signal, line 169
Con169(t) ==
    /\ pc[t] = "con169"
    /\ SIGNALS' = [SIGNALS EXCEPT ![frame[t].signal]
                                      = HandlersAppend(@, frame[t].handler)]
    /\ delivered' = [delivered EXCEPT ![frame[t].signal] = Append(@,
                        [handler |-> frame[t].handler,
                         before |-> Published(frame[t].signal), calls |-> 0])]
    /\ Return(t, "-")
    /\ UNCHANGED <<regVars, histVars, restVars>>

\* A thread calls SignalManager.send_signal(s, d).
SendSignal(t, s, d) ==
    /\ pc[t] = "idle"
    /\ taskCalls < MaxTaskCalls
    /\ taskCalls' = taskCalls + 1
    /\ Publish(t, s, d, "idle")
    /\ raised' = [raised EXCEPT ![t] = "-"]
    /\ UNCHANGED <<regVars, sigVars, stores, updates, assigned, restVars>>

\* A constructor that assigns the field _subtitle itself, without the
\* setter.
TaskInitField(t, k) ==
    /\ pc[t] = "idle"
    /\ ~made[k]
    /\ \A u \in Threads : frame[u].task # k
    /\ pc' = [pc EXCEPT ![t] = "init70"]
    /\ frame' = [frame EXCEPT ![t] = [NoFrame EXCEPT !.task = k]]
    /\ raised' = [raised EXCEPT ![t] = "-"]
    /\ UNCHANGED <<regVars, sigVars, histVars, restVars>>

\* A thread constructs Task k: Task.__init__, lines 67-69, comes to the
\* assignment self.subtitle = subtitle.
TaskInit(t, k) ==
    /\ pc[t] = "idle"
    /\ ~made[k]
    /\ \A u \in Threads : frame[u].task # k
    /\ pc' = [pc EXCEPT ![t] = "sub89"]
    /\ frame' = [frame EXCEPT ![t] = [NoFrame EXCEPT !.task = k,
                                                      !.ret = "init70"]]
    /\ raised' = [raised EXCEPT ![t] = "-"]
    /\ UNCHANGED <<regVars, sigVars, histVars, restVars>>

\* Task.__init__, lines 70-71: the constructor returns.
Init70(t) ==
    /\ pc[t] = "init70"
    /\ made' = [made EXCEPT ![frame[t].task] = TRUE]
    /\ Return(t, "-")
    /\ UNCHANGED <<TASKS, uuids, taskId, subtitle, sigVars, histVars, restVars>>

\* A thread assigns k.subtitle = v.
AssignSubtitle(t, k, v) ==
    /\ pc[t] = "idle"
    /\ made[k]
    /\ taskCalls < MaxTaskCalls
    /\ taskCalls' = taskCalls + 1
    /\ pc' = [pc EXCEPT ![t] = "sub89"]
    /\ frame' = [frame EXCEPT ![t] = [NoFrame EXCEPT !.task = k, !.value = v]]
    /\ raised' = [raised EXCEPT ![t] = "-"]
    /\ UNCHANGED <<regVars, sigVars, published, stores, updates, assigned,
                   restVars>>

\* A subtitle setter that publishes without storing the value.
Sub89Skip(t) ==
    /\ pc[t] = "sub89"
    /\ pc' = [pc EXCEPT ![t] = "sub90"]
    /\ UNCHANGED <<regVars, sigVars, histVars, frame, raised, restVars>>

\* Task.subtitle setter, line 89
Sub89(t) ==
    /\ pc[t] = "sub89"
    /\ subtitle' = [subtitle EXCEPT ![frame[t].task] = frame[t].value]
    /\ stores' = [stores EXCEPT ![frame[t].task] = @ + 1]
    /\ pc' = [pc EXCEPT ![t] = "sub90"]
    /\ UNCHANGED <<TASKS, uuids, taskId, made, sigVars, published, updates,
                   assigned, taskCalls, frame, raised, restVars>>

\* Task.subtitle setter, line 90
Sub90(t) ==
    /\ pc[t] = "sub90"
    /\ Publish(t, "task.updated", taskId[frame[t].task], frame[t].ret)
    /\ updates' = [updates EXCEPT ![frame[t].task] = @ + 1]
    /\ UNCHANGED <<regVars, sigVars, stores, assigned, taskCalls, raised,
                   restVars>>

\* A thread calls TaskManager.add_task(k); line 148.
AddTask(t, k) ==
    /\ pc[t] = "idle"
    /\ made[k]
    /\ taskCalls < MaxTaskCalls
    /\ taskCalls' = taskCalls + 1
    /\ uuids' = Uuid4
    /\ pc' = [pc EXCEPT ![t] = "add149"]
    /\ frame' = [frame EXCEPT ![t] = [NoFrame EXCEPT !.task = k,
                                                      !.uniq = Uuid4]]
    /\ raised' = [raised EXCEPT ![t] = "-"]
    /\ UNCHANGED <<TASKS, taskId, subtitle, made, sigVars, published, stores,
                   updates, assigned, restVars>>

\* add_task, line 149: the task_id setter, lines 79-80
Add149(t) ==
    /\ pc[t] = "add149"
    /\ IF SetterRefuses(frame[t].task)
       THEN Return(t, "NotImplementedError")
       ELSE /\ pc' = [pc EXCEPT ![t] = "set81"]
            /\ UNCHANGED <<frame, raised>>
    /\ UNCHANGED <<regVars, sigVars, histVars, restVars>>

\* add_task, line 149: the task_id setter, line 81
Set81(t) ==
    /\ pc[t] = "set81"
    /\ taskId' = [taskId EXCEPT ![frame[t].task] = frame[t].uniq]
    /\ assigned' = [assigned EXCEPT ![frame[t].task] = @ + 1]
    /\ pc' = [pc EXCEPT ![t] = "add150"]
    /\ UNCHANGED <<TASKS, uuids, subtitle, made, sigVars, published, stores,
                   updates, taskCalls, frame, raised, restVars>>

\* add_task, line 150
Add150(t) ==
    /\ pc[t] = "add150"
    /\ TASKS' = TasksStore(frame[t].uniq, frame[t].task)
    /\ pc' = [pc EXCEPT ![t] = "add151"]
    /\ UNCHANGED <<uuids, taskId, subtitle, made, sigVars, histVars, frame,
                   raised, restVars>>

\* add_task, lines 151-152
Add151(t) ==
    /\ pc[t] = "add151"
    /\ Publish(t, "task.added", taskId[frame[t].task], "idle")
    /\ UNCHANGED <<regVars, sigVars, stores, updates, assigned, taskCalls,
                   raised, restVars>>

\* A thread calls TaskManager.remove_task(k) with a Task.
RemoveTask(t, k) ==
    /\ pc[t] = "idle"
    /\ made[k]
    /\ taskCalls < MaxTaskCalls
    /\ taskCalls' = taskCalls + 1
    /\ pc' = [pc EXCEPT ![t] = "rm156"]
    /\ frame' = [frame EXCEPT ![t] = [NoFrame EXCEPT !.task = k]]
    /\ raised' = [raised EXCEPT ![t] = "-"]
    /\ UNCHANGED <<regVars, sigVars, published, stores, updates, assigned,
                   restVars>>

\* A thread calls TaskManager.remove_task(u) with a UUID: line 156 finds
\* that it is no Task.
RemoveId(t, u) ==
    /\ pc[t] = "idle"
    /\ u \in 1..uuids
    /\ taskCalls < MaxTaskCalls
    /\ taskCalls' = taskCalls + 1
    /\ pc' = [pc EXCEPT ![t] = "rm158"]
    /\ frame' = [frame EXCEPT ![t] = [NoFrame EXCEPT !.uniq = u]]
    /\ raised' = [raised EXCEPT ![t] = "-"]
    /\ UNCHANGED <<regVars, sigVars, published, stores, updates, assigned,
                   restVars>>

\* remove_task, lines 156-157
Rm156(t) ==
    /\ pc[t] = "rm156"
    /\ frame' = [frame EXCEPT ![t].uniq = taskId[frame[t].task]]
    /\ pc' = [pc EXCEPT ![t] = "rm158"]
    /\ UNCHANGED <<regVars, sigVars, histVars, raised, restVars>>

\* remove_task, line 158: dict.pop raises KeyError for a key that is absent
Rm158(t) ==
    /\ pc[t] = "rm158"
    /\ IF PopFinds(frame[t].uniq)
       THEN /\ TASKS' = TasksPop(frame[t].uniq)
            /\ pc' = [pc EXCEPT ![t] = "rm159"]
            /\ UNCHANGED <<frame, raised>>
       ELSE /\ Return(t, "KeyError")
            /\ UNCHANGED TASKS
    /\ UNCHANGED <<uuids, taskId, subtitle, made, sigVars, histVars, restVars>>

\* remove_task, line 159
Rm159(t) ==
    /\ pc[t] = "rm159"
    /\ Publish(t, "task.removed", frame[t].uniq, "idle")
    /\ UNCHANGED <<regVars, sigVars, stores, updates, assigned, taskCalls,
                   raised, restVars>>

\* `case Status.DONE, Status.FAILED:`, line 95: a sequence pattern, which
\* matches a sequence of these two members and no single Status.
CaseDoneFailed(st) == st = StatusPair

\* f"{percent}%", line 106
PercentString(percent) == ToString(percent) \o "%"

\* A stream_update that takes every total_size of zero as a size not yet
\* known (`if total_size == 0:` at line 101).
StreamUpdateGuarded(t, k, received, total, st) ==
    /\ pc[t] = "idle"
    /\ made[k]
    /\ taskCalls < MaxTaskCalls
    /\ taskCalls' = taskCalls + 1
    /\ LET args == [NoFrame EXCEPT !.task = k, !.call = "stream_update",
                                   !.status = st, !.received = received,
                                   !.total = total]
       IN  IF CaseDoneFailed(st)
           THEN /\ pc' = [pc EXCEPT ![t] = "rm156"]
                /\ frame' = [frame EXCEPT ![t] = args]
                /\ raised' = [raised EXCEPT ![t] = "-"]
           ELSE IF total = 0
           THEN /\ pc' = [pc EXCEPT ![t] = "sub89"]
                /\ frame' = [frame EXCEPT
                                ![t] = [args EXCEPT !.value = Calculating]]
                /\ raised' = [raised EXCEPT ![t] = "-"]
           ELSE IF total = 0
           THEN /\ pc' = pc
                /\ frame' = frame
                /\ raised' = [raised EXCEPT ![t] = "ZeroDivisionError"]
           ELSE /\ pc' = [pc EXCEPT ![t] = "sub89"]
                /\ frame' = [frame EXCEPT ![t] = [args EXCEPT
                       !.value = PercentString(Percent(received, total))]]
                /\ raised' = [raised EXCEPT ![t] = "-"]
    /\ UNCHANGED <<regVars, sigVars, published, stores, updates, assigned,
                   restVars>>

\* A thread calls k.stream_update(received, total, st); lines 94-105 work
\* on the arguments alone: the call comes to TaskManager.remove_task(self)
\* (line 96), to one of the two assignments of self.subtitle (lines 102,
\* 106), or the division of line 105 raises.
StreamUpdate(t, k, received, total, st) ==
    /\ pc[t] = "idle"
    /\ made[k]
    /\ taskCalls < MaxTaskCalls
    /\ taskCalls' = taskCalls + 1
    /\ LET args == [NoFrame EXCEPT !.task = k, !.call = "stream_update",
                                   !.status = st, !.received = received,
                                   !.total = total]
       IN  IF CaseDoneFailed(st)
           THEN /\ pc' = [pc EXCEPT ![t] = "rm156"]
                /\ frame' = [frame EXCEPT ![t] = args]
                /\ raised' = [raised EXCEPT ![t] = "-"]
           ELSE IF total = 0 /\ received = 0
           THEN /\ pc' = [pc EXCEPT ![t] = "sub89"]
                /\ frame' = [frame EXCEPT
                                ![t] = [args EXCEPT !.value = Calculating]]
                /\ raised' = [raised EXCEPT ![t] = "-"]
           ELSE IF total = 0
           THEN /\ pc' = pc
                /\ frame' = frame
                /\ raised' = [raised EXCEPT ![t] = "ZeroDivisionError"]
           ELSE /\ pc' = [pc EXCEPT ![t] = "sub89"]
                /\ frame' = [frame EXCEPT ![t] = [args EXCEPT
                       !.value = PercentString(Percent(received, total))]]
                /\ raised' = [raised EXCEPT ![t] = "-"]
    /\ UNCHANGED <<regVars, sigVars, published, stores, updates, assigned,
                   restVars>>

\* One line of a call in progress of thread t.
TaskStep(t) ==
    \/ Con168(t) \/ Con169(t)
    \/ Init70(t) \/ Sub89(t) \/ Sub90(t)
    \/ Add149(t) \/ Set81(t) \/ Add150(t) \/ Add151(t)
    \/ Rm156(t) \/ Rm158(t) \/ Rm159(t)
    \/ Send177(t) \/ Send180(t)

NextTask ==
    \/ \E t \in TaskThreads, s \in Signals, h \in TaskHandlers :
          ConnectSignal(t, s, h)
    \/ \E t \in TaskThreads, k \in Tasks : TaskInit(t, k)
    \/ \E t \in TaskThreads, k \in Tasks, v \in Subtitles :
          AssignSubtitle(t, k, v)
    \/ \E t \in TaskThreads, k \in Tasks : AddTask(t, k) \/ RemoveTask(t, k)
    \/ \E t \in TaskThreads, u \in 1..MaxTaskCalls : RemoveId(t, u)
    \/ \E t \in TaskThreads : TaskStep(t)

\* Threads constructing, registering, updating and removing tasks, with
\* handlers being connected to the signals.
SpecTask == Init /\ [][NextTask]_vars

NextStream ==
    \/ \E t \in TaskThreads, k \in Tasks : TaskInit(t, k) \/ AddTask(t, k)
    \/ \E t \in TaskThreads, k \in Tasks, size \in Sizes, st \in StatusArgs :
          StreamUpdate(t, k, size[1], size[2], st)
    \/ \E t \in TaskThreads :
          \/ Init70(t) \/ Sub89(t) \/ Sub90(t)
          \/ Add149(t) \/ Set81(t) \/ Add150(t) \/ Add151(t)
          \/ Rm156(t) \/ Rm158(t) \/ Rm159(t)
          \/ Send177(t)

NextSignal ==
    \/ \E t \in TaskThreads, s \in Signals, h \in Handlers :
          ConnectSignal(t, s, h)
    \/ \E t \in TaskThreads, s \in Signals, d \in Payloads :
          SendSignal(t, s, d)
    \/ \E t \in TaskThreads :
          Con168(t) \/ Con169(t) \/ Send177(t) \/ Send180(t)

\* Threads connecting handlers to signals and sending signals.
SpecSignal == Init /\ [][NextSignal]_vars

\* Threads constructing and registering tasks and feeding them the progress
\* of a download; no handler is connected.
SpecStream == Init /\ [][NextStream]_vars

\* <<received_size, total_size>> with a total of zero.
ZeroTotals == {size \in Sizes : size[2] = 0}

NextDivide ==
    \/ \E t \in TaskThreads, k \in Tasks : TaskInit(t, k) \/ AddTask(t, k)
    \/ \E t \in TaskThreads, k \in Tasks, size \in ZeroTotals,
          st \in {"None"} \cup Statuses :
          StreamUpdate(t, k, size[1], size[2], st)
    \/ \E t \in TaskThreads :
          \/ Init70(t) \/ Sub89(t) \/ Sub90(t)
          \/ Add149(t) \/ Set81(t) \/ Add150(t) \/ Add151(t)
          \/ Send177(t)

\* Threads constructing and registering tasks and feeding them progress of
\* a download whose total size is zero, with None or a Status as status.
SpecDivide == Init /\ [][NextDivide]_vars

NextRaise ==
    \/ \E t \in TaskThreads, h \in Handlers :
          ConnectSignal(t, "task.added", h)
    \/ \E t \in TaskThreads, k \in Tasks : TaskInit(t, k) \/ AddTask(t, k)
    \/ \E t \in TaskThreads :
          \/ Con168(t) \/ Con169(t)
          \/ Init70(t) \/ Sub89(t) \/ Sub90(t)
          \/ Add149(t) \/ Set81(t) \/ Add150(t) \/ Add151(t)
          \/ Send177(t) \/ Send180(t)

\* Threads constructing and registering tasks while handlers, one of which
\* raises, are being connected to TaskAdded.
SpecRaise == Init /\ [][NextRaise]_vars

\* -------------------------------------------------- RepoStatus: properties

InWait(t, n) ==
    pc[t] \in {"wait108", "wait109", "blocked", "wait110"} /\ opname[t] = n

InDone(t, n) ==
    pc[t] \in {"done102", "done103"} /\ opname[t] = n

PastSetdefault(p) ==
    pc[p] \in {"start97", "done103", "wait109", "blocked", "wait110"}

\* C3 as stated: whenever repo_wait_operation(N) returns, the gate for N is
\* signaled in the state it returns in.
C3_ReturnsOnlySignaled ==
    [][\A t \in Threads :
        (pc[t] = "wait110" /\ pc'[t] = "idle") => flag[event[t]]]_vars

\* C3, amended: event.wait() inside repo_wait_operation(N) lets the caller
\* through only at a moment when the gate for N is signaled (a start(N) may
\* clear it again before the method returns); a wait that creates the gate
\* creates it not signaled, and a blocked waiter leaves the blocked state
\* only in the step in which some thread's repo_done_operation(N) sets it.
C3_UnblocksOnlySignaled ==
    [][\A t \in Threads :
        /\ (pc[t] \in {"wait109", "blocked"} /\ pc'[t] = "wait110")
              => flag'[event[t]]
        /\ (pc[t] = "wait108" /\ pc'[t] = "wait109"
                /\ EVENTS[opname[t]] = NoObj)
              => /\ EVENTS'[opname[t]] = event'[t]
                 /\ ~flag'[event'[t]]
        /\ (pc[t] = "blocked" /\ pc'[t] # "blocked")
              => \E u \in Procs :
                    /\ pc[u] = "done103" /\ pc'[u] # "done103"
                    /\ opname[u] = opname[t]]_vars

\* A waiter on a name nobody ever started was blocked or let through and is
\* now past event.wait(), the gate set by a repo_done_operation.
C3_Witness ==
    \E t \in Threads :
        /\ pc[t] = "wait110"
        /\ ~started[opname[t]]
        /\ everSet[opname[t]]

\* C4: whenever the event.set() of a repo_done_operation runs, every thread
\* blocked in repo_wait_operation on that gate leaves the blocked state in
\* that very step; and a thread blocked in repo_wait_operation(N) while some
\* thread has called repo_done_operation(N) eventually returns from its wait,
\* whatever happens to the gate afterwards.
C4_DoneReleasesEveryWaiter ==
    /\ [][\A u \in Procs : \A t \in Procs :
            (pc[u] = "done103" /\ pc'[u] # "done103"
                /\ pc[t] = "blocked" /\ event[t] = event[u])
            => pc'[t] = "wait110"]_vars
    /\ \A t \in Threads :
            (pc[t] = "blocked" /\ \E u \in Threads : InDone(u, opname[t]))
            ~> (pc[t] = "idle")

\* Scenario A with two waiters: the name was started, two threads are
\* blocked on its gate and a third is about to set it.
C4_Witness ==
    \E t \in Threads : \E u \in Threads : \E w \in Threads :
        /\ t # u
        /\ pc[t] = "blocked" /\ pc[u] = "blocked" /\ pc[w] = "done103"
        /\ event[t] = event[w] /\ event[u] = event[w]
        /\ started[opname[w]]

\* C5: for a name that was never started, once repo_done_operation(N) has
\* set the gate, the gate is stored and signaled and no thread is blocked in
\* repo_wait_operation(N) (earlier waiters were released, later ones pass).
C5_DoneBeforeStartUnblocks ==
    \A n \in Names :
        (everSet[n] /\ ~started[n]) =>
            /\ EVENTS[n] # NoObj
            /\ flag[EVENTS[n]]
            /\ \A t \in Procs : ~(pc[t] = "blocked" /\ opname[t] = n)

\* done(N) came first on a never-started name: one wait on N is already past
\* event.wait(), and a later one holds the set gate and is about to pass.
C5_Witness ==
    \E t \in Threads : \E u \in Threads : \E n \in Names :
        /\ everSet[n] /\ ~started[n]
        /\ pc[t] = "wait110" /\ opname[t] = n
        /\ pc[u] = "wait109" /\ opname[u] = n /\ flag[event[u]]

\* C6: a set gate is cleared only by the event.clear() of a
\* repo_start_operation on it; a wait that finds the gate set passes without
\* blocking and leaves it set; the gate of a name is never replaced.
C6_SignaledUntilNextStart ==
    [][/\ \A e \in 1..Len(flag) :
            (flag[e] /\ ~flag'[e]) =>
                \E p \in Procs : /\ pc[p] = "start97" /\ pc'[p] # "start97"
                                 /\ event[p] = e
       /\ \A t \in Procs :
            (pc[t] = "wait109" /\ flag[event[t]] /\ pc'[t] # pc[t]) =>
                /\ pc'[t] = "wait110"
                /\ flag'[event[t]]
       /\ \A n \in Names :
            EVENTS[n] # NoObj => EVENTS'[n] = EVENTS[n]]_vars

\* After start(N) and done(N), two waits on N are both past event.wait()
\* and the gate is still set.
C6_Witness ==
    \E t \in Threads : \E u \in Threads : \E n \in Names :
        /\ t # u
        /\ started[n] /\ everSet[n]
        /\ pc[t] = "wait110" /\ pc[u] = "wait110"
        /\ opname[t] = n /\ opname[u] = n
        /\ flag[EVENTS[n]]

\* C7: every call that has run its setdefault holds the one event stored for
\* its name, and the heap holds exactly one event per stored name.
C7_OneGatePerName ==
    /\ \A p \in Procs :
          PastSetdefault(p) => /\ event[p] # NoObj
                               /\ event[p] = EVENTS[opname[p]]
    /\ Len(flag) = Cardinality({n \in Names : EVENTS[n] # NoObj})
    /\ \A n \in Names : \A m \in Names :
          (EVENTS[n] # NoObj /\ EVENTS[n] = EVENTS[m]) => n = m

\* A start, a done and a wait on the same name are all in flight, each past
\* its setdefault.
C7_Witness ==
    \E t \in Threads : \E u \in Threads : \E w \in Threads :
        /\ pc[t] = "start97" /\ pc[u] = "done103" /\ pc[w] = "wait109"
        /\ opname[t] = opname[u] /\ opname[u] = opname[w]

\* C8: a repo_wait_operation(N) in flight together with a
\* repo_done_operation(N) eventually returns, unless a
\* repo_start_operation(N) is ever called.
C8_NoLostSignal ==
    \A t \in Threads :
        (\E n \in Names : InWait(t, n) /\ \E u \in Threads : InDone(u, n))
        ~> (pc[t] = "idle" \/ \E n \in Names : InWait(t, n) /\ started[n])

\* The waiter created the gate and blocked on it; the done that races it is
\* about to set the same gate; the name was never started.
C8_Witness ==
    \E t \in Threads : \E u \in Threads :
        /\ pc[t] = "blocked" /\ pc[u] = "done103"
        /\ event[u] = event[t]
        /\ ~started[opname[t]] /\ ~everSet[opname[t]]

\* -------------------------------------------------------- Repo: properties

\* The gate of Repo r.
GateOf(r) == EVENTS[Fetching(rname[r])]

\* Repo q has cleared its gate (line 97) and has not yet set it (line 103).
Fetching_(q) == pc[q] \in {"gc49", "sc40", "sc41", "done102", "done103"}

\* C9: in the state in which the constructor of a Repo returns, the gate for
\* name + ".fetching" exists and is not signaled (the construction has armed
\* it).
C9_ArmedWhenConstructorReturns ==
    [][\A r \in Repos :
        (pc[r] = "unborn" /\ pc'[r] # "unborn") =>
            /\ EVENTS'[Fetching(rname'[r])] # NoObj
            /\ ~flag'[EVENTS'[Fetching(rname'[r])]]]_vars

\* C10 as stated: whenever the completion callback is invoked, the catalog
\* holds the fetched result and the gate name + ".fetching" is signaled.
C10_CallbackSeesGateSignaled ==
    \A r \in Repos :
        (pc[r] = "sc42" /\ hasCb[r]) =>
            /\ catalog[r] = result[r]
            /\ flag[GateOf(r)]

\* C10, amended: the steps of set_catalog happen in the order store the
\* catalog, signal the gate, invoke the callback (only if one was supplied);
\* when the callback is invoked the catalog holds the fetched result, this
\* resolution has signaled the gate, and the gate is still signaled unless
\* another Repo with the same name has re-armed it since and is still
\* fetching.
C10_StoreSignalCallback ==
    \A r \in Repos :
        /\ \E k \in 0..3 :
              trace[r] = SubSeq(<<"catalog", "signal", "callback">>, 1, k)
        /\ (Len(trace[r]) = 3) => hasCb[r]
        /\ (pc[r] = "finished") => Len(trace[r]) = (IF hasCb[r] THEN 3 ELSE 2)
        /\ (pc[r] = "sc42") =>
              /\ trace[r] = <<"catalog", "signal">>
              /\ catalog[r] = result[r]
              /\ catalog[r] \in {"{}", "doc"}
              /\ GateOf(r) # NoObj
              /\ \/ flag[GateOf(r)]
                 \/ \E q \in Repos :
                       q # r /\ rname[q] = rname[r] /\ Fetching_(q)

\* A fetch over the network came to a document and is about to invoke the
\* callback that was supplied, the gate signaled.
C10_Witness ==
    \E r \in Repos :
        /\ pc[r] = "sc42" /\ hasCb[r]
        /\ result[r] = "doc" /\ catalog[r] = "doc"
        /\ flag[GateOf(r)]

\* set_catalog has stored the result of Repo r (line 40 has run).
Stored(r) == pc[r] \in {"sc41", "done102", "done103", "sc42", "finished"}

\* How many times x occurs in the sequence s.
Occurrences(s, x) == Cardinality({i \in 1..Len(s) : s[i] = x})

Failures == {"pycurl.error", "yaml.YAMLError"}

\* C11: a Repo constructed with offline set, or with an index that is empty
\* or None, never performs a transfer; the catalog it stores is the empty
\* mapping; its completion callback is invoked once, and never twice.
C11_LocalFetchResolvesEmpty ==
    \A r \in Repos :
        (pc[r] # "unborn" /\ GetCatalogLocal(index[r], offline[r])) =>
            /\ net[r] = 0
            /\ outcome[r] = NoOutcome
            /\ Stored(r) => catalog[r] = "{}"
            /\ Occurrences(trace[r], "callback") <= 1
            /\ (pc[r] = "finished" /\ hasCb[r]) =>
                  Occurrences(trace[r], "callback") = 1
            /\ ~hasCb[r] => Occurrences(trace[r], "callback") = 0

\* A Repo told to stay offline, with an index to fetch and a callback, has
\* finished: no transfer, an empty catalog, one callback.
C11_Witness ==
    \E r \in Repos :
        /\ pc[r] = "finished" /\ offline[r] /\ hasCb[r]
        /\ index[r] \notin {"", "None"}
        /\ net[r] = 0 /\ catalog[r] = "{}"
        /\ Occurrences(trace[r], "callback") = 1

\* C12: when the transfer raises or the document fails to parse, one error
\* is logged, the worker goes on (nothing is raised to the caller of the
\* constructor, which has returned), the catalog stored is the empty
\* mapping, and the resolution ends as a successful one does: the gate is
\* signaled and the callback, if supplied, is invoked once.
C12_FailureResolvesEmpty ==
    \A r \in Repos :
        outcome[r] \in Failures =>
            /\ net[r] = 1
            /\ errors[r] = 1
            /\ result[r] = "{}"
            /\ pc[r] \in {"sc40"} \cup {q \in {"sc41", "done102", "done103",
                              "sc42", "finished"} : catalog[r] = "{}"}
            /\ (pc[r] = "finished") =>
                  /\ everSet[Fetching(rname[r])]
                  /\ trace[r] = IF hasCb[r]
                                THEN <<"catalog", "signal", "callback">>
                                ELSE <<"catalog", "signal">>

\* A fetch whose document failed to parse has finished, with a callback.
C12_Witness ==
    \E r \in Repos :
        /\ pc[r] = "finished" /\ hasCb[r]
        /\ outcome[r] = "yaml.YAMLError"
        /\ catalog[r] = "{}" /\ errors[r] = 1
        /\ trace[r] = <<"catalog", "signal", "callback">>

\* C13: under a fair task runner every constructed Repo resolves, whatever
\* its index, its offline flag and the outcome of the transfer: its gate is
\* signaled by the resolution and the callback supplied is invoked.
C13_EveryRepoResolves ==
    \A r \in Repos :
        (pc[r] # "unborn") ~>
            /\ pc[r] = "finished"
            /\ everSet[Fetching(rname[r])]
            /\ Occurrences(trace[r], "signal") = 1
            /\ hasCb[r] => Occurrences(trace[r], "callback") = 1

\* Both Repos have resolved: one after a failed transfer, with a callback,
\* one answered on the spot, without.
C13_Witness ==
    \E r, q \in Repos :
        /\ pc[r] = "finished" /\ pc[q] = "finished"
        /\ outcome[r] = "pycurl.error" /\ hasCb[r]
        /\ outcome[q] = NoOutcome /\ ~hasCb[q]
        /\ Occurrences(trace[r], "callback") = 1
        /\ Occurrences(trace[q], "signal") = 1

\* C14: a get_manifest call without `plain` whose transfer raises or whose
\* document fails to parse returns the empty mapping, logs one error, and
\* raises nothing.
C14_ManifestFailureEmpty ==
    (manifest.repo # "-" /\ ~manifest.plain /\ manifest.outcome \in Failures)
        => /\ manifest.value = "{}"
           /\ manifest.logged = 1
           /\ ~manifest.raised

\* A parsed-mode get_manifest whose document failed to parse has returned
\* while the fetch of the catalog is under way.
C14_Witness ==
    /\ manifest.repo = ManifestRepo /\ ~manifest.plain
    /\ manifest.outcome = "yaml.YAMLError"
    /\ manifest.value = "{}" /\ manifest.logged = 1
    /\ pc[ManifestRepo] = "sc40"

\* C15: a get_manifest call with `plain` whose transfer raises lets the
\* failure reach the caller as an exception.
C15_PlainPropagatesTransportFailure ==
    (manifest.plain /\ manifest.outcome = "pycurl.error") => manifest.raised

\* ----------------------------------------------- TaskManager: properties

\* Thread t has given Task k its identifier (line 149) and has not yet
\* published the registration (line 151).
Registering(t, k) ==
    pc[t] \in {"add150", "add151"} /\ frame[t].task = k

\* The entry of identifier u has been popped by a remove_task call.
Removed(u) ==
    \/ CopiesIn(<<"task.removed", u>>, published) > 0
    \/ \E t \in Threads : pc[t] = "rm159" /\ frame[t].uniq = u

\* send_signal calls for signal s under way that have not yet come to the
\* i-th handler of the list.
Pending(s, i) ==
    Cardinality({t \in Threads :
        /\ pc[t] \in {"send177", "send180"}
        /\ frame[t].signal = s
        /\ pc[t] = "send177" \/ frame[t].idx <= i})

\* C16: the identifiers that add_task calls assign differ from one another;
\* every task that no two calls have registered at once is stored under its
\* own identifier from line 150 on until it is removed, and its
\* registration is published once; a handler connected for TaskAdded
\* before the calls is called once for every call.
C16_ConcurrentAddsKeepEveryTask ==
    /\ \A t, u \in Threads :
          (t # u /\ frame[t].uniq # NoId /\ pc[t] \in {"add149", "set81",
              "add150", "add151"} /\ pc[u] \in {"add149", "set81", "add150",
              "add151"}) => frame[t].uniq # frame[u].uniq
    /\ \A k, j \in Tasks :
          (k # j /\ taskId[k] # NoId) => taskId[k] # taskId[j]
    /\ \A k \in Tasks :
          assigned[k] = 1 =>
              /\ (~Removed(taskId[k])
                    /\ ~\E t \in Threads : pc[t] = "add150" /\ frame[t].task = k)
                  => /\ taskId[k] \in DOMAIN TASKS
                     /\ TASKS[taskId[k]] = k
              /\ CopiesIn(<<"task.added", taskId[k]>>, published)
                    + Cardinality({t \in Threads : Registering(t, k)}) = 1
    /\ "task.added" \in DOMAIN delivered =>
          \A i \in 1..Len(delivered["task.added"]) :
              delivered["task.added"][i].before = 0 =>
                  delivered["task.added"][i].calls + Pending("task.added", i)
                      = Published("task.added")

\* Two tasks are being registered at once, the handler connected for
\* TaskAdded before them has been called for one of them.
C16_Witness ==
    \E t, u \in Threads :
        /\ pc[t] = "add150" /\ pc[u] = "send180"
        /\ frame[u].signal = "task.added" /\ frame[u].idx = 2
        /\ taskId[frame[t].task] # NoId
        /\ frame[u].data # taskId[frame[t].task]
        /\ frame[u].data \in DOMAIN TASKS
        /\ delivered["task.added"]
              = <<[handler |-> "h1", before |-> 0, calls |-> 1]>>

\* C17: a step of line 149 of add_task on a task that has an identifier
\* raises NotImplementedError; the task keeps the identifier, the task map
\* stays as it is and nothing is published.
C17_IdentifierAssignedOnce ==
    [][\A t \in Threads :
        (/\ pc[t] \in {"add149", "set81"}
         /\ pc'[t] # pc[t]
         /\ taskId[frame[t].task] # NoId) =>
            /\ pc'[t] = "idle"
            /\ raised'[t] = "NotImplementedError"
            /\ taskId' = taskId
            /\ TASKS' = TASKS
            /\ published' = published]_vars

\* C18: line 158 of remove_task, for an identifier that is in the map (given
\* as such or read from the Task), deletes that entry and no other, and line
\* 159 then publishes one TaskRemoved carrying the identifier; the tasks
\* themselves are left as they are, and no identifier is ever published as
\* removed twice.
C18_RemoveDeletesOneEntry ==
    /\ [][\A t \in Threads :
            (pc[t] = "rm158" /\ pc'[t] # "rm158"
                /\ frame[t].uniq \in DOMAIN TASKS) =>
                /\ DOMAIN TASKS' = DOMAIN TASKS \ {frame[t].uniq}
                /\ \A x \in DOMAIN TASKS' : TASKS'[x] = TASKS[x]
                /\ pc'[t] = "rm159"
                /\ frame'[t].uniq = frame[t].uniq
                /\ published' = published
                /\ taskId' = taskId /\ subtitle' = subtitle]_vars
    /\ [][\A t \in Threads :
            (pc[t] = "rm159" /\ pc'[t] # "rm159") =>
                /\ published' = published
                      (+) SetToBag({<<"task.removed", frame[t].uniq>>})
                /\ frame[t].uniq \notin DOMAIN TASKS
                /\ TASKS' = TASKS
                /\ taskId' = taskId /\ subtitle' = subtitle]_vars
    /\ [][\A u \in 1..uuids :
            CopiesIn(<<"task.removed", u>>, published')
               > CopiesIn(<<"task.removed", u>>, published)
            => \E t \in Threads : pc[t] = "rm159" /\ frame[t].uniq = u]_vars

\* One of two registered tasks has been removed and the removal published;
\* the other is still in the map.
C18_Witness ==
    \E u, x \in 1..uuids :
        /\ CopiesIn(<<"task.removed", u>>, published) = 1
        /\ u \notin DOMAIN TASKS
        /\ x \in DOMAIN TASKS
        /\ taskId[TASKS[x]] = x
        /\ \A t \in Threads : pc[t] = "idle"

\* C19: line 158 of remove_task, for an identifier that is not in the map
\* (never stored, already removed, or None read from a Task that is not
\* registered), raises KeyError, leaves the task map as it is and publishes
\* nothing; so no identifier is published as removed twice.
C19_RemoveOfAbsentFails ==
    /\ [][\A t \in Threads :
            (pc[t] = "rm158" /\ pc'[t] # "rm158"
                /\ frame[t].uniq \notin DOMAIN TASKS) =>
                /\ pc'[t] = "idle"
                /\ raised'[t] = "KeyError"
                /\ TASKS' = TASKS
                /\ published' = published]_vars
    /\ [](\A u \in 1..uuids :
            CopiesIn(<<"task.removed", u>>, published) <= 1)

\* The only task there is has been registered and removed, and a second
\* removal of it has failed.
C19_Witness ==
    /\ uuids = 1 /\ made = [k \in Tasks |-> k = "k1"]
    /\ CopiesIn(<<"task.removed", 1>>, published) = 1
    /\ TASKS = <<>>
    /\ \E t \in Threads : raised[t] = "KeyError"
    /\ \A t \in Threads : pc[t] = "idle"

\* C20: every assignment of a subtitle stores the value (line 89) and then
\* publishes one TaskUpdated (line 90) carrying the identifier the task has:
\* the signals published for a task are as many as the values stored, less
\* the assignments that are between the two lines.
C20_OneUpdatePerAssignment ==
    /\ [](\A k \in Tasks :
            stores[k] = updates[k] + Cardinality({t \in Threads :
                            pc[t] = "sub90" /\ frame[t].task = k}))
    /\ [](\A t \in Threads :
            pc[t] = "sub90" => subtitle[frame[t].task] = frame[t].value)
    /\ [][\A t \in Threads :
            (pc[t] = "sub90" /\ pc'[t] # "sub90") =>
                /\ published' = published (+) SetToBag(
                      {<<"task.updated", taskId[frame[t].task]>>})
                /\ subtitle' = subtitle
                /\ taskId' = taskId]_vars
    /\ [][\A d \in 0..uuids :
            CopiesIn(<<"task.updated", d>>, published')
                # CopiesIn(<<"task.updated", d>>, published)
            => \E t \in Threads : pc[t] = "sub90" /\ pc'[t] # "sub90"]_vars

\* A registered task has been assigned a subtitle twice and two TaskUpdated
\* signals carry its identifier.
C20_Witness ==
    \E k \in Tasks :
        /\ taskId[k] \in DOMAIN TASKS
        /\ CopiesIn(<<"task.updated", taskId[k]>>, published) = 2
        /\ stores[k] = 3 /\ updates[k] = 3
        /\ subtitle[k] = "s"

\* ------------------------------------------------- LockManager: properties

\* Thread t is between lock.acquire() and lock.release() of a wrapper
\* decorated with l.
Inside(t, l) ==
    pc[t] \in {"w120", "w121"} /\ wname[fn[t]] = l

\* C1: for every lock identifier, at most one thread is inside (the body of)
\* a function wrapped with it, whichever wrapped function each thread called.
C1_MutualExclusion ==
    \A l \in Locks : \A t \in Threads : \A u \in Threads :
        (Inside(t, l) /\ Inside(u, l)) => t = u

\* Contention across two functions decorated with the same identifier: one
\* thread is in the body of one, another waits in acquire() of the other.
C1_Witness ==
    \E t \in Threads : \E u \in Threads :
        /\ pc[t] = "w120" /\ pc[u] = "w119"
        /\ fn[t] # fn[u]
        /\ wname[fn[t]] = wname[fn[u]]
        /\ locked[wlock[fn[u]]]

\* C2: a lock is held only while some call of a function wrapped with it is
\* between acquire and release: once the call has finished, by return or by
\* an error, the lock is free.
C2_ReleasedOnEveryExit ==
    \A l \in 1..Len(locked) :
        locked[l] => \E t \in Threads :
                        pc[t] \in {"w120", "w121"} /\ wlock[fn[t]] = l

\* ------------------------------------------- Task.stream_update: properties

\* Thread t is in a stream_update call.
Streaming(t) == frame[t].call = "stream_update"

\* Task k is in the task map.
Registered(k) == taskId[k] \in DOMAIN TASKS /\ TASKS[taskId[k]] = k

\* C21: a stream_update call with status DONE or FAILED on a registered
\* task neither assigns the subtitle nor publishes TaskUpdated (it removes
\* the task and publishes TaskRemoved instead).
C21_TerminalStatusRemoves ==
    \A t \in TaskThreads :
        Streaming(t) /\ frame[t].status \in {"DONE", "FAILED"}
                     /\ Registered(frame[t].task)
        => /\ pc[t] \notin {"sub89", "sub90"}
           /\ frame[t].signal # "task.updated"

\* C22: a stream_update call with a non-terminal status and total_size > 0
\* assigns the subtitle "{p}%", p the integer part of
\* received_size * 100 / total_size; with both sizes zero it assigns
\* "Calculating...".
C22_PercentIsIntegerPart ==
    \A t \in TaskThreads :
        Streaming(t) /\ frame[t].status \in {"None", "RUNNING"}
                     /\ pc[t] \in {"sub89", "sub90"}
        => frame[t].value =
              IF frame[t].received = 0 /\ frame[t].total = 0
              THEN Calculating
              ELSE ToString((frame[t].received * 100) \div frame[t].total)
                     \o "%"

\* ------------------------------------------------ SignalManager: properties

\* Thread t is in send_signal.
Sending(t) == pc[t] \in {"send177", "send180"}

\* The step is the normal return of thread t from send_signal.
SendReturn(t) == Sending(t) /\ ~Sending(t)' /\ raised'[t] = "-"

\* The handlers of a handler list.
Connected(s) ==
    IF s \in DOMAIN SIGNALS THEN {SIGNALS[s][i] : i \in 1..Len(SIGNALS[s])}
    ELSE {}

\* The positions at which thread t has called handler h.
CallsOf(t, h) == {i \in 1..Len(frame[t].called) : frame[t].called[i][1] = h}

\* C23: the handler list of a kind is the registrations of that kind in the
\* order they were made, a repeated registration being a repeated entry;
\* send_signal calls the entries in that order, each once, and returns
\* when it has called them all.
C23_RegistrationOrder ==
    /\ [](\A s \in DOMAIN SIGNALS :
            /\ Len(SIGNALS[s]) = Len(delivered[s])
            /\ \A i \in 1..Len(SIGNALS[s]) :
                   SIGNALS[s][i] = delivered[s][i].handler)
    /\ [](\A t \in TaskThreads :
            pc[t] = "send180"
            => /\ Len(frame[t].called) = frame[t].idx - 1
               /\ \A i \in 1..Len(frame[t].called) :
                      frame[t].called[i][1]
                         = delivered[frame[t].signal][i].handler)
    /\ [][\A t \in TaskThreads :
            SendReturn(t) /\ frame[t].signal \in DOMAIN SIGNALS
            => Len(frame[t].called) = Len(delivered[frame[t].signal])]_vars

\* A send_signal is about to return after calling a handler that was
\* connected twice two times.
C23_Witness ==
    \E t \in TaskThreads, h \in Handlers :
        /\ pc[t] = "send180"
        /\ SIGNALS[frame[t].signal] = <<h, h>>
        /\ frame[t].called = <<<<h, frame[t].data>>, <<h, frame[t].data>>>>

\* C24 as stated: when send_signal returns, every handler connected for
\* the kind has been called exactly once.
C24_EveryHandlerOnce ==
    [][\A t \in TaskThreads :
          SendReturn(t)
          => \A h \in Connected(frame[t].signal) :
                Cardinality(CallsOf(t, h)) = 1]_vars

\* C24: when send_signal(kind, data) returns normally, the calling thread
\* has called every registration made for kind before the call, in
\* order and each once, every call of the send was given data, and no
\* handler that is not connected for kind was called.
C24_SynchronousKindSelective ==
    [][\A t \in TaskThreads :
          SendReturn(t)
          => /\ Len(frame[t].called) >= frame[t].had
             /\ \A i \in 1..frame[t].had :
                    frame[t].called[i]
                       = <<SIGNALS[frame[t].signal][i], frame[t].data>>
             /\ \A i \in 1..Len(frame[t].called) :
                    /\ frame[t].called[i][2] = frame[t].data
                    /\ frame[t].called[i][1] \in Connected(frame[t].signal)
             /\ \A h \in Handlers \ Connected(frame[t].signal) :
                    CallsOf(t, h) = {}]_vars

\* A send_signal is about to return: it has called the handler connected
\* for its kind, and a handler is connected for another kind only.
C24_Witness ==
    \E t \in TaskThreads, h \in Handlers :
        /\ pc[t] = "send180"
        /\ LoopEnds(t)
        /\ frame[t].called # <<>>
        /\ h \notin Connected(frame[t].signal)
        /\ \E s \in Signals : h \in Connected(s)

\* C25: a send_signal for a kind that is no key of the handler map returns
\* without an exception and without calling a handler, and leaves the
\* handler map (no key is made), the task map and the lock pool as they
\* were.
C25_UnconnectedSendIsNoOp ==
    [][\A t \in TaskThreads :
          pc[t] = "send177" /\ pc'[t] # "send177"
                            /\ frame[t].signal \notin DOMAIN SIGNALS
          => /\ pc'[t] = frame[t].ret
             /\ raised'[t] = raised[t]
             /\ UNCHANGED <<SIGNALS, delivered, TASKS, LOCKS>>]_vars

\* The send_signal of an add_task has returned: the task is registered and
\* the handler map has no key.
C25_Witness ==
    /\ \A t \in TaskThreads : pc[t] = "idle"
    /\ SIGNALS = <<>>
    /\ TASKS # <<>>
    /\ Published("task.added") > 0

\* ------------------------------------------ LockManager: further properties

\* C26: every lock that get_lock has returned for a name, at a decoration
\* or to a direct caller, is the lock the pool holds for that name, and the
\* pool's entry for a name, once made, stays the same lock.
C26_OneLockPerName ==
    /\ [](\A r \in resolved : LOCKS[r[1]] = r[3])
    /\ [](\A f \in Funcs : wlock[f] # NoObj => wlock[f] = LOCKS[wname[f]])
    /\ [][\A l \in Locks : LOCKS[l] # NoObj => LOCKS'[l] = LOCKS[l]]_vars

\* Two functions decorated with one name and a direct get_lock of that name
\* have all got the same lock.
C26_Witness ==
    \E l \in Locks :
        /\ LOCKS[l] # NoObj
        /\ \A f \in Funcs : <<l, f, LOCKS[l]>> \in resolved
        /\ \E t \in Threads : <<l, t, LOCKS[l]>> \in resolved

\* Thread t is in the body of a function wrapped with a lock and waits in
\* acquire() of the wrapper of a function wrapped with the same lock.
SelfBlocked(t) ==
    /\ pc[t] = "w119"
    /\ outer[t] # NoFunc
    /\ wlock[outer[t]] = wlock[fn[t]]

\* C27: a thread that, inside a function guarded by a lock, calls a
\* function guarded by the same lock waits in acquire() from then on: the
\* lock stays held, the thread neither enters the inner function nor
\* leaves the call.
C27_NotReentrant ==
    [][\A t \in Threads :
          SelfBlocked(t)
          => /\ SelfBlocked(t)'
             /\ fn'[t] = fn[t]
             /\ locked[wlock[fn[t]]] /\ locked'[wlock[fn[t]]]]_vars

\* Deadlock: one thread waits for the lock it holds itself, every other
\* thread waits for that lock too.
C27_Witness ==
    \E t \in Threads :
        /\ SelfBlocked(t)
        /\ \A u \in Threads \ {t} :
               pc[u] = "w119" /\ wlock[fn[u]] = wlock[fn[t]]

\* ------------------------------------------- RepoStatus: further properties

\* The state of the gate of name n in the given EVENTS and flags.
GateState(map, heap, n) ==
    IF map[n] = NoObj THEN "absent"
    ELSE IF heap[map[n]] THEN "signaled"
    ELSE "armed"

\* The step is p's leaving line `at` of a RepoStatus method called for n.
StepAt(p, at, n) == pc[p] = at /\ pc'[p] # at /\ opname[p] = n

\* C28: the gate of a name changes state in three ways only: from absent
\* to armed by the setdefault of a call for the name, from armed to
\* signaled by the event.set() of a done, from signaled to armed by the
\* event.clear() of a start.  It never becomes absent again, and a start
\* that is past line 96 has its gate.
C28_GateStates ==
    /\ [](\A p \in Procs :
            pc[p] = "start97" => EVENTS[opname[p]] # NoObj)
    /\ [][\A n \in Names :
            LET old == GateState(EVENTS, flag, n)
                new == GateState(EVENTS', flag', n)
            IN  old # new
                => \/ /\ old = "absent" /\ new = "armed"
                      /\ \E p \in Procs :
                            \/ StepAt(p, "start96", n)
                            \/ StepAt(p, "done102", n)
                            \/ StepAt(p, "wait108", n)
                   \/ /\ old = "armed" /\ new = "signaled"
                      /\ \E p \in Procs : StepAt(p, "done103", n)
                   \/ /\ old = "signaled" /\ new = "armed"
                      /\ \E p \in Procs : StepAt(p, "start97", n)]_vars

\* The gate of a name has been signaled by a done and armed again by a
\* start that came after it; no call is in progress.
C28_Witness ==
    \E n \in Names :
        /\ started[n] /\ everSet[n]
        /\ GateState(EVENTS, flag, n) = "armed"
        /\ calls = 3
        /\ \A t \in Threads : pc[t] = "idle"
        /\ \A m \in Names \ {n} : EVENTS[m] = NoObj

\* C29: when repo_start_operation(N) returns, the gate of N exists and is
\* not signaled; a start that finds the gate armed leaves every gate and
\* flag as it was, and no start releases a waiter.
C29_StartRearms ==
    [][\A p \in Procs :
          pc[p] = "start97" /\ pc'[p] # "start97"
          => /\ GateState(EVENTS', flag', opname[p]) = "armed"
             /\ GateState(EVENTS, flag, opname[p]) = "armed"
                   => UNCHANGED <<EVENTS, flag>>
             /\ \A q \in Procs \ {p} : pc'[q] = pc[q]]_vars

\* Two starts of a name have returned while a third thread is blocked in a
\* wait on it: the gate is armed, the waiter still blocked.
C29_Witness ==
    \E n \in Names : \E u \in Threads :
        /\ pc[u] = "blocked" /\ opname[u] = n
        /\ \A t \in Threads \ {u} : pc[t] = "idle"
        /\ calls = 3
        /\ \A m \in Names : ~everSet[m]
        /\ \A m \in Names \ {n} : EVENTS[m] = NoObj
        /\ GateState(EVENTS, flag, n) = "armed"

\* ------------------------------------------------- Repo: further properties

\* C30: the catalog of a constructed Repo is a mapping at every moment: the
\* empty mapping until the fetch has resolved, the fetched document or the
\* empty mapping afterwards.
C30_CatalogAlwaysMapping ==
    \A r \in Repos :
        pc[r] # "unborn"
        => catalog[r] = IF Stored(r) THEN result[r] ELSE "{}"

\* C31: a repo_wait_operation(name + ".fetching") issued for a Repo whose
\* constructor has returned is past its event.wait() only when the catalog
\* of that Repo has been stored.
C31_WaitReturnsAfterStore ==
    \A t \in Waiters :
        pc[t] = "wait110" => Stored(waited[t])

\* ------------------------------------ TaskManager, Task: further properties

\* C32: every identifier of the task map is mapped to a task whose task_id
\* is that identifier, and no task is stored under two identifiers.
C32_TaskMapConsistent ==
    \A u \in DOMAIN TASKS :
        /\ taskId[TASKS[u]] = u
        /\ \A v \in DOMAIN TASKS : TASKS[u] = TASKS[v] => u = v

\* Thread t is about to call a handler of signal s: the handler sees this
\* state.
Calling(t, s) ==
    /\ pc[t] = "send180"
    /\ frame[t].signal = s
    /\ ~LoopEnds(t)

\* C33: handlers see the map after the change they are told of: a handler
\* of TaskAdded called with identifier i finds the added task under i, a
\* handler of TaskRemoved called with identifier i finds no task under i.
C33_HandlersSeeChange ==
    \A t \in TaskThreads :
        /\ Calling(t, "task.added")
           => /\ frame[t].data \in DOMAIN TASKS
              /\ TASKS[frame[t].data] = frame[t].task
        /\ Calling(t, "task.removed") => frame[t].data \notin DOMAIN TASKS

\* The entry that held task k under its identifier has been popped by a
\* remove_task call; remove_task leaves k.task_id as it is.
WasRemoved(k) == taskId[k] # NoId /\ Removed(taskId[k])

\* C34: a task that has been removed is not registered again: it is under
\* no identifier of the map, and no add_task call on it is past the check
\* of the task_id setter, on its way to storing it.
C34_RemovedStaysOut ==
    \A k \in Tasks :
        WasRemoved(k)
        => /\ \A u \in DOMAIN TASKS : TASKS[u] # k
           /\ \A t \in TaskThreads :
                 ~(pc[t] \in {"set81", "add150"} /\ frame[t].task = k)

\* Thread t is in the constructor of Task k.
Constructing(t, k) == pc[t] # "idle" /\ frame[t].task = k /\ ~made[k]

Raising(t) ==
    /\ pc[t] = "send180"
    /\ ~LoopEnds(t)
    /\ SIGNALS[frame[t].signal][frame[t].idx] \in Raisers

\* C36: when a handler raises, send_signal ends there: the handler has been
\* called, no handler after it in the list is, and the exception leaves
\* the call of the publishing thread. When the publisher is add_task the
\* call fails with the task stored under the new identifier and having an
\* identifier; nothing is rolled back.
C36_HandlerErrorPropagates ==
    [][\A t \in TaskThreads :
          Raising(t) /\ frame'[t] # frame[t]
          => /\ pc'[t] = "idle"
             /\ raised'[t] = "HandlerError"
             /\ \A i \in 1..Len(delivered[frame[t].signal]) :
                    delivered'[frame[t].signal][i].calls
                       = delivered[frame[t].signal][i].calls
                         + IF i = frame[t].idx THEN 1 ELSE 0
             /\ frame[t].signal = "task.added"
                => /\ taskId[frame[t].task] # NoId
                   /\ frame[t].uniq \in DOMAIN TASKS
                   /\ TASKS[frame[t].uniq] = frame[t].task
                   /\ UNCHANGED <<TASKS, taskId>>]_vars

\* An add_task has failed with the error of the first handler of TaskAdded:
\* the second handler was not called, the task is stored and has its
\* identifier.
C36_Witness ==
    \E t \in TaskThreads, k \in Tasks :
        /\ pc[t] = "idle"
        /\ raised[t] = "HandlerError"
        /\ "task.added" \in DOMAIN delivered
        /\ delivered["task.added"]
              = <<[handler |-> "h2", before |-> 0, calls |-> 1],
                  [handler |-> "h1", before |-> 0, calls |-> 0]>>
        /\ taskId[k] # NoId
        /\ taskId[k] \in DOMAIN TASKS
        /\ TASKS[taskId[k]] = k

\* ------------------------------------ Task.stream_update: further properties

\* C37: a stream_update call with total_size 0 and received_size > 0, and
\* a status that the match of line 95 does not take, raises
\* ZeroDivisionError at line 105: the call is over, no subtitle has been
\* assigned, no TaskUpdated published, and the task map is as it was.
C37_ZeroTotalRaises ==
    [][\A t \in TaskThreads, k \in Tasks, size \in Sizes, st \in StatusArgs :
          /\ size[2] = 0 /\ size[1] > 0 /\ ~CaseDoneFailed(st)
          /\ StreamUpdate(t, k, size[1], size[2], st)
          => /\ raised'[t] = "ZeroDivisionError"
             /\ pc'[t] = "idle"
             /\ UNCHANGED <<subtitle, stores, updates, published>>
             /\ UNCHANGED <<TASKS, taskId>>
             /\ Registered(k) => Registered(k)']_vars

\* A stream_update on a registered task has ended with the division error.
C37_Witness ==
    \E t \in TaskThreads, k \in Tasks :
        /\ pc[t] = "idle"
        /\ raised[t] = "ZeroDivisionError"
        /\ Registered(k)
        /\ stores[k] = 1 /\ updates[k] = 1

\* ------------------------------------------ Repo.get_manifest: further properties

\* C38: a get_manifest call, plain or parsed, whatever its transfer, its
\* decoding and its parse come to, leaves the catalog of the Repo and the
\* gates of RepoStatus (the map and the events' flags) as they are, and
\* does no step of the resolution of the fetch: it neither stores a
\* catalog, nor signals a gate, nor invokes the completion callback.
C38_ManifestTouchesNothing ==
    [][\A plain \in BOOLEAN, o \in Outcomes \cup {"UnicodeDecodeError"} :
          GetManifest(ManifestRepo, plain, o)
          => /\ UNCHANGED <<catalog, result, trace>>
             /\ UNCHANGED <<EVENTS, flag, started, everSet>>]_vars

\* A parsed-mode get_manifest has returned its document while the fetch of
\* the Repo, constructed with a callback, is under way: the catalog is
\* still None and no step of the resolution has been done.
C38_Witness ==
    /\ manifest.repo = ManifestRepo /\ ~manifest.plain
    /\ manifest.outcome = "ok" /\ manifest.value = "doc"
    /\ pc[ManifestRepo] = "sc40"
    /\ hasCb[ManifestRepo]
    /\ catalog[ManifestRepo] = "None"
    /\ trace[ManifestRepo] = <<>>

====
